---- MODULE Spec2Model ----
(***************************************************************************)
(* A model of the PoseEditor annotation workspace (package poseeditor):    *)
(* the pose data model and its JSON (de)serialisation (models.py), the     *)
(* undo/redo command stack (undo.py), the canvas pointer/key handlers      *)
(* (widgets/canvas.py) and the project workflow of the main window         *)
(* (main_window.py): open, load, save, navigation, validation and triage.  *)
(*                                                                         *)
(* Conventions.  Python sequences are 0-based, TLA+ sequences 1-based:     *)
(* keypoint index i of the source is position i+1 here.  Python None is    *)
(* modelled per type: 0 for "no image / no keypoint", NoPath for "no       *)
(* path", a record with set = FALSE for "no point".  Floating point        *)
(* coordinates are modelled by integers; detector confidences are in       *)
(* tenths (0.3 is 3).                                                      *)
(***************************************************************************)
EXTENDS Integers, Sequences, FiniteSets, TLC

(***************************************************************************)
(* Bounds of the model.                                                    *)
(***************************************************************************)
\* number of image files the project directory holds
NumImages == 3
\* keypoints with a source index below this bound can be grabbed by the pointer
MaxActiveKp == 2
\* user events explored per behaviour of an edit session
MaxEvents == 8

\* user events explored per behaviour of the annotation workflow
MaxFlowEvents == 5

\* commands the undo stack holds before further edits are not explored
MaxHistory == 2
\* score-button clicks explored per behaviour
MaxClicks == 3
\* failing file operations (write, move) explored per behaviour
MaxFaults == 1
MaxViewEvents == 4
MaxMetaEvents == 3
MaxLoadEvents == 3
MaxOpenEvents == 3
MaxDragEvents == 5

(***************************************************************************)
(* models.py                                                               *)
(***************************************************************************)

KEYPOINT_NAMES ==
  << "nose", "left_eye", "right_eye", "left_ear", "right_ear",
     "left_shoulder", "right_shoulder", "left_elbow", "right_elbow",
     "left_wrist", "right_wrist", "left_hip", "right_hip",
     "left_knee", "right_knee", "left_ankle", "right_ankle" >>

\* Keypoint.__init__
Keypoint(name, x, y, visibility) ==
  [name |-> name, x |-> x, y |-> y, visibility |-> visibility]

\* PoseData._init_keypoints
InitKeypoints ==
  [i \in 1..Len(KEYPOINT_NAMES) |-> Keypoint(KEYPOINT_NAMES[i], 0, 0, 0)]

\* PoseData.__init__
NewPoseData ==
  [keypoints |-> InitKeypoints,
   raw_id |-> 0,
   raw_scores |-> << >>,
   novelty |-> -1,
   environment_interaction |-> -1,
   person_fit |-> -1,
   skip_reason |-> "",
   score |-> -1]

(***************************************************************************)
(* JSON values.  A JSON object is a TLA+ record whose domain is the set of *)
(* keys present.  The elements of a "keypoints" array carry their Python   *)
(* type in the field kind: "list" ([x, y], field items) or "dict"          *)
(* ({name, x, y, visibility}, field d).                                    *)
(***************************************************************************)
JList(items) == [kind |-> "list", items |-> items]
JDict(d) == [kind |-> "dict", d |-> d]
JNumber(v) == [kind |-> "number", v |-> v]

\* dict.get(key, default)
Get(d, key, default) == IF key \in DOMAIN d THEN d[key] ELSE default

\* [0.0] * len(self.keypoints)
ZeroScores(n) == [i \in 1..n |-> 0]

\* the detector-confidence threshold of from_dict, in tenths
ScoreThreshold == 3

\* PoseData.to_dict
to_dict(p) ==
  [id |-> p.raw_id,
   keypoints |-> [i \in 1..Len(p.keypoints) |->
                    JList(<< p.keypoints[i].x, p.keypoints[i].y >>)],
   scores |-> IF p.raw_scores # << >> THEN p.raw_scores
              ELSE ZeroScores(Len(p.keypoints)),
   visibility |-> [i \in 1..Len(p.keypoints) |-> p.keypoints[i].visibility],
   novelty |-> p.novelty,
   environment_interaction |-> p.environment_interaction,
   person_fit |-> p.person_fit,
   skip_reason |-> p.skip_reason]

\* Keypoint.from_dict: data["name"], data["x"], ... raise KeyError when absent
KeypointFromDictRaises(d) ==
  ~ ({"name", "x", "y", "visibility"} \subseteq DOMAIN d)

\* Keypoint.from_dict
KeypointFromDict(d) == Keypoint(d.name, d.x, d.y, d.visibility)

\* the score fields read at the top of PoseData.from_dict
FromDictScores(data) ==
  [NewPoseData EXCEPT
     !.novelty = Get(data, "novelty", -1),
     !.environment_interaction =
        Get(data, "environment_interaction", Get(data, "environment_fit", -1)),
     !.person_fit = Get(data, "person_fit", -1),
     !.skip_reason = Get(data, "skip_reason", ""),
     !.score = Get(data, "score", -1)]

\* the COCO branch of PoseData.from_dict raises IndexError on a short [x, y]
CocoRaises(raw_kps) ==
  \E i \in 1..Len(KEYPOINT_NAMES) :
     /\ i <= Len(raw_kps)
     /\ \/ raw_kps[i].kind # "list"
        \/ Len(raw_kps[i].items) < 2

\* the COCO branch of PoseData.from_dict
FromDictCoco(pose, data, raw_kps) ==
  LET raw_scores == Get(data, "scores", << >>)
      visibility_list == Get(data, "visibility", << >>)
      kp(i) ==
        LET k0 == pose.keypoints[i]
            k1 == IF i <= Len(raw_kps)
                  THEN [k0 EXCEPT !.x = raw_kps[i].items[1],
                                  !.y = raw_kps[i].items[2]]
                  ELSE k0
        IN  IF i <= Len(visibility_list)
            THEN [k1 EXCEPT !.visibility = visibility_list[i]]
            ELSE IF i <= Len(raw_scores) /\ raw_scores[i] > ScoreThreshold
                 THEN [k1 EXCEPT !.visibility = 1]
                 ELSE k1
  IN  [pose EXCEPT
         !.raw_id = Get(data, "id", 0),
         !.raw_scores = raw_scores,
         !.keypoints = [i \in 1..Len(pose.keypoints) |-> kp(i)]]

\* the legacy branch of PoseData.from_dict raises on a malformed entry
LegacyRaises(raw_kps) ==
  \E i \in 1..Len(KEYPOINT_NAMES) :
     /\ i <= Len(raw_kps)
     /\ \/ raw_kps[i].kind # "dict"
        \/ KeypointFromDictRaises(raw_kps[i].d)

\* the legacy branch of PoseData.from_dict
FromDictLegacy(pose, raw_kps) ==
  [pose EXCEPT
     !.keypoints = [i \in 1..Len(pose.keypoints) |->
                      IF i <= Len(raw_kps)
                      THEN KeypointFromDict(raw_kps[i].d)
                      ELSE pose.keypoints[i]]]

from_dict_no_visibility(data) ==
  LET pose == FromDictScores(data)
      raw_kps == Get(data, "keypoints", << >>)
  IN  IF raw_kps # << >> /\ raw_kps[1].kind = "list"
      THEN IF CocoRaises(raw_kps)
           THEN [ok |-> FALSE, pose |-> NewPoseData]
           ELSE [ok |-> TRUE,
                 pose |-> FromDictCoco(pose,
                            [k \in DOMAIN data \ {"visibility"} |-> data[k]],
                            raw_kps)]
      ELSE [ok |-> TRUE, pose |-> pose]

\* PoseData.from_dict; ok = FALSE when the source raises
from_dict(data) ==
  LET pose == FromDictScores(data)
      raw_kps == Get(data, "keypoints", << >>)
  IN  IF raw_kps # << >> /\ raw_kps[1].kind = "list"
      THEN IF CocoRaises(raw_kps)
           THEN [ok |-> FALSE, pose |-> NewPoseData]
           ELSE [ok |-> TRUE, pose |-> FromDictCoco(pose, data, raw_kps)]
      ELSE IF raw_kps # << >> /\ raw_kps[1].kind = "dict"
      THEN IF LegacyRaises(raw_kps)
           THEN [ok |-> FALSE, pose |-> NewPoseData]
           ELSE [ok |-> TRUE, pose |-> FromDictLegacy(pose, raw_kps)]
      ELSE [ok |-> TRUE, pose |-> pose]


(***************************************************************************)
(* The state.  Program state (fields of PoseEditor, Canvas and UndoStack), *)
(* the project directory on disk, the program's outputs, and history       *)
(* variables used to state properties.                                     *)
(***************************************************************************)
VARIABLES
  \* PoseEditor
  project_root, origin_dir, json_dir, inpaint_dir,
  image_files, current_index, current_image_path, current_annotation_path,
  score_ui,
  \* Canvas
  image, pose_data, pose_id, selected_keypoint, dragging, drag_start_pos,
  \* UndoStack
  undo_stack, redo_stack,
  \* the project directory; origin_exists: it has the images/ subdirectory
  disk_image, disk_json, decodable, meta, origin_exists,
  \* outputs of the last handler: message boxes shown, file operations made
  dialog, last,
  \* history variables
  written_for, pre_edit, edited, lost_edit, phase, button_down, clicks,
  events_left,  faults,  \* the serialisation harness
  sd,
  \* Canvas: the view transform, the sizes of the widget and of the image,
  \* and the last view operation
  scale, offset, widget_size, image_size, view_last,
  \* the wall clock read by datetime.now()
  now

vars ==
  << project_root, origin_dir, json_dir, image_files, current_index,
     current_image_path, current_annotation_path, score_ui, image, pose_data,
     pose_id, selected_keypoint, dragging, drag_start_pos, undo_stack,
     redo_stack, disk_image, disk_json, decodable, meta, dialog, last,
     written_for, pre_edit, edited, lost_edit, phase, button_down, clicks,
     events_left, faults, sd, scale, offset, widget_size, image_size,
     view_last, now,
                  inpaint_dir, origin_exists >>

viewvars == << scale, offset, widget_size, image_size, view_last >>

\* None for a path
NoPath == [dir |-> "", stem |-> 0]
\* None for a QPointF
NoPoint == [set |-> FALSE, x |-> 0, y |-> 0]
QPointF(x, y) == [set |-> TRUE, x |-> x, y |-> y]

\* bool(QPointF): PySide6 maps the truth value of a class that has isNull()
\* to "not isNull()"; the null point is (0, 0)
Truthy(p) == p.set /\ ~ (p.x = 0 /\ p.y = 0)

\* The state the handlers work on: the variables, plus the position in the
\* fault plan (nf: fallible file operations made so far by this handler,
\* failAt: the one that fails, 0 for none).
Cur(op, failAt) ==
  [project_root |-> project_root, origin_dir |-> origin_dir,
   json_dir |-> json_dir, image_files |-> image_files,
   current_index |-> current_index,
   current_image_path |-> current_image_path,
   current_annotation_path |-> current_annotation_path,
   score_ui |-> score_ui, image |-> image, pose_data |-> pose_data,
   pose_id |-> pose_id, selected_keypoint |-> selected_keypoint,
   dragging |-> dragging, drag_start_pos |-> drag_start_pos,
   undo_stack |-> undo_stack, redo_stack |-> redo_stack,
   disk_image |-> disk_image, disk_json |-> disk_json, meta |-> meta,
   now |-> now, inpaint_dir |-> inpaint_dir, origin_exists |-> origin_exists,
   dialog |-> << >>,
   last |-> [op |-> op, outcome |-> "", img |-> 0, path |-> NoPath,
             custom |-> "", category |-> "", log |-> << >>],
   written_for |-> written_for, pre_edit |-> pre_edit, edited |-> edited,
   lost_edit |-> lost_edit, phase |-> phase,
   nf |-> 0, failAt |-> failAt]

InstallWith(s, nclicks, nbutton) ==
  /\ project_root' = s.project_root
  /\ origin_dir' = s.origin_dir
  /\ json_dir' = s.json_dir
  /\ image_files' = s.image_files
  /\ current_index' = s.current_index
  /\ current_image_path' = s.current_image_path
  /\ current_annotation_path' = s.current_annotation_path
  /\ score_ui' = s.score_ui
  /\ image' = s.image
  /\ pose_data' = s.pose_data
  /\ pose_id' = s.pose_id
  /\ selected_keypoint' = s.selected_keypoint
  /\ dragging' = s.dragging
  /\ drag_start_pos' = s.drag_start_pos
  /\ undo_stack' = s.undo_stack
  /\ redo_stack' = s.redo_stack
  /\ disk_image' = s.disk_image
  /\ disk_json' = s.disk_json
  /\ meta' = s.meta
  /\ now' = s.now
  /\ inpaint_dir' = s.inpaint_dir
  /\ origin_exists' = s.origin_exists
  /\ dialog' = s.dialog
  /\ last' = s.last
  /\ written_for' = s.written_for
  /\ pre_edit' = s.pre_edit
  /\ edited' = s.edited
  /\ lost_edit' = s.lost_edit
  /\ phase' = s.phase
  /\ faults' = IF s.failAt # 0 /\ s.nf >= s.failAt THEN faults + 1 ELSE faults
  /\ clicks' = nclicks
  /\ button_down' = nbutton
  /\ events_left' = events_left - 1
  /\ UNCHANGED << decodable, sd >>
  /\ UNCHANGED viewvars

Install(s) == InstallWith(s, clicks, button_down)

\* x, y and visibility of every keypoint of a record
KpState(p) ==
  [i \in 1..Len(p.keypoints) |->
     << p.keypoints[i].x, p.keypoints[i].y, p.keypoints[i].visibility >>]

(***************************************************************************)
(* undo.py                                                                 *)
(***************************************************************************)

\* KeypointChangeCommand.__init__
KeypointChangeCommand(pid, keypoint_index, old_state, new_state) ==
  [pose_data |-> pid, keypoint_index |-> keypoint_index,
   old_state |-> old_state, new_state |-> new_state]

UpdateKeypoint_selects(s, cmd, state) ==
  IF cmd.pose_data = s.pose_id
  THEN [s EXCEPT !.pose_data.keypoints[cmd.keypoint_index] =
                    [@ EXCEPT !.x = state.x, !.y = state.y,
                              !.visibility = state.visibility],
                 !.selected_keypoint = cmd.keypoint_index]
  ELSE s

\* KeypointChangeCommand._update_keypoint.  The command mutates the record
\* it was built for; when that record is no longer the live one the live
\* record is untouched.
UpdateKeypoint(s, cmd, state) ==
  IF cmd.pose_data = s.pose_id
  THEN [s EXCEPT !.pose_data.keypoints[cmd.keypoint_index] =
          [@ EXCEPT !.x = state.x, !.y = state.y,
                    !.visibility = state.visibility]]
  ELSE s

Push_keeps_redo(s, cmd) ==
  [s EXCEPT !.undo_stack = Append(@, cmd)]

\* UndoStack.push
Push(s, cmd) ==
  [s EXCEPT !.undo_stack = Append(@, cmd), !.redo_stack = << >>]

UndoStackUndo_drops(s) ==
  LET command == s.undo_stack[Len(s.undo_stack)]
      t == UpdateKeypoint(s, command, command.old_state)
  IN  [t EXCEPT !.undo_stack = SubSeq(@, 1, Len(@) - 1)]

\* UndoStack.undo on a stack that is not empty (undo below has the test)
UndoStackUndo(s) ==
  LET command == s.undo_stack[Len(s.undo_stack)]
      t == UpdateKeypoint(s, command, command.old_state)
  IN  [t EXCEPT !.undo_stack = SubSeq(@, 1, Len(@) - 1),
                !.redo_stack = Append(@, command)]

\* UndoStack.redo on a stack that is not empty (redo below has the test)
UndoStackRedo(s) ==
  LET command == s.redo_stack[Len(s.redo_stack)]
      t == UpdateKeypoint(s, command, command.new_state)
  IN  [t EXCEPT !.redo_stack = SubSeq(@, 1, Len(@) - 1),
                !.undo_stack = Append(@, command)]

UndoStackClear_undo_only(s) ==
  [s EXCEPT !.undo_stack = << >>,
            !.pre_edit = KpState(s.pose_data),
            !.edited = KpState(s.pose_data),
            !.lost_edit = FALSE,
            !.phase = "edit"]

\* UndoStack.clear
UndoStackClear(s) ==
  [s EXCEPT !.undo_stack = << >>, !.redo_stack = << >>,
            !.pre_edit = KpState(s.pose_data),
            !.edited = KpState(s.pose_data),
            !.lost_edit = FALSE,
            !.phase = "edit"]

(***************************************************************************)
(* widgets/canvas.py.  Pointer positions are given in image coordinates:   *)
(* the view is held at the transform the canvas is constructed with        *)
(* (scale 1, offset (0, 0)), under which widget_to_image and               *)
(* image_to_widget are the identity.                                       *)
(***************************************************************************)
\* Canvas.__init__: self.scale = 1.0
ViewScale == 1
\* get_keypoint_at: distance < 10
HitRadius == 10

Abs(n) == IF n < 0 THEN -n ELSE n

\* (kp_pos - pos).manhattanLength() in widget coordinates
ManhattanLength(kp, pos) ==
  Abs(kp.x * ViewScale - pos.x * ViewScale)
    + Abs(kp.y * ViewScale - pos.y * ViewScale)

\* Canvas.get_keypoint_at: the index of the first keypoint within reach, 0
\* for None
get_keypoint_at(s, pos) ==
  IF s.image = 0 THEN 0
  ELSE LET hits == {i \in 1..Len(s.pose_data.keypoints) :
                      ManhattanLength(s.pose_data.keypoints[i], pos) < HitRadius}
       IN  IF hits = {} THEN 0
           ELSE CHOOSE i \in hits : \A j \in hits : i <= j

StateChanged_always(old_state, new_state) == TRUE

\* Canvas._state_changed
StateChanged(old_state, new_state) ==
  \/ old_state.x # new_state.x
  \/ old_state.y # new_state.y
  \/ old_state.visibility # new_state.visibility

\* Canvas._push_keypoint_change
PushKeypointChange(s, keypoint_index, old_state, new_state) ==
  IF ~ StateChanged(old_state, new_state) THEN s
  ELSE Push(s, KeypointChangeCommand(s.pose_id, keypoint_index,
                                     old_state, new_state))

SelectedKp(s) == s.pose_data.keypoints[s.selected_keypoint]

\* Canvas.mousePressEvent, left button
MousePress(s, pos, ctrl) ==
  IF ctrl /\ s.selected_keypoint # 0
  THEN LET old_state == SelectedKp(s)
           t == [s EXCEPT !.pose_data.keypoints[s.selected_keypoint] =
                   [@ EXCEPT !.x = pos.x, !.y = pos.y, !.visibility = 1]]
       IN  PushKeypointChange(t, s.selected_keypoint, old_state, SelectedKp(t))
  ELSE LET hit == get_keypoint_at(s, pos)
       IN  IF hit # 0
           THEN [s EXCEPT !.selected_keypoint = hit,
                          !.dragging = TRUE,
                          !.drag_start_pos =
                             QPointF(s.pose_data.keypoints[hit].x,
                                     s.pose_data.keypoints[hit].y)]
           ELSE [s EXCEPT !.selected_keypoint = 0]

\* Canvas.mouseMoveEvent (the panning branch moves no keypoint)
MouseMove(s, pos) ==
  IF s.dragging /\ s.selected_keypoint # 0
  THEN [s EXCEPT !.pose_data.keypoints[s.selected_keypoint] =
          [@ EXCEPT !.x = pos.x, !.y = pos.y]]
  ELSE s

\* Canvas.mouseReleaseEvent, left button.  lost_edit records a gesture that
\* changed the keypoint and ended without a command
MouseRelease(s) ==
  IF s.dragging /\ s.selected_keypoint # 0
  THEN LET kp == SelectedKp(s)
           old_state == Keypoint(kp.name, s.drag_start_pos.x,
                                 s.drag_start_pos.y, kp.visibility)
       IN  IF Truthy(s.drag_start_pos)
           THEN [PushKeypointChange(s, s.selected_keypoint, old_state, kp)
                   EXCEPT !.dragging = FALSE, !.drag_start_pos = NoPoint]
           ELSE [s EXCEPT !.dragging = FALSE,
                          !.lost_edit = @ \/ StateChanged(old_state, kp)]
  ELSE [s EXCEPT !.dragging = FALSE]

\* Canvas.keyPressEvent for Qt.Key_S, Qt.Key_D, Qt.Key_Space
KeyPress(s, key) ==
  IF s.selected_keypoint = 0 THEN s
  ELSE LET old_state == SelectedKp(s)
           v == CASE key = "S" -> 0
                  [] key = "D" -> 1
                  [] key = "Space" -> 1 - old_state.visibility
           t == [s EXCEPT
                   !.pose_data.keypoints[s.selected_keypoint].visibility = v]
       IN  PushKeypointChange(t, s.selected_keypoint, old_state, SelectedKp(t))

(***************************************************************************)
(* widgets/canvas.py, the view transform.  Python floats are modelled by   *)
(* exact rationals << numerator, denominator >> in lowest terms with a     *)
(* positive denominator; sizes (QSize) are pairs of integers.              *)
(***************************************************************************)
RECURSIVE GCD(_, _)
GCD(a, b) == IF b = 0 THEN a ELSE GCD(b, a % b)

Rat(n, d) ==
  LET g == GCD(Abs(n), Abs(d))
      sgn == IF d < 0 THEN -1 ELSE 1
  IN  << (sgn * n) \div g, (sgn * d) \div g >>

RInt(n) == << n, 1 >>
\* common factors are cancelled before multiplying, which keeps the
\* intermediate integers small
RAdd(a, b) ==
  LET g == GCD(a[2], b[2])
  IN  Rat(a[1] * (b[2] \div g) + b[1] * (a[2] \div g), (a[2] \div g) * b[2])
RNeg(a) == << -a[1], a[2] >>
RSub(a, b) == RAdd(a, RNeg(b))
RMul(a, b) ==
  LET g1 == GCD(Abs(a[1]), b[2])
      g2 == GCD(Abs(b[1]), a[2])
  IN  Rat((a[1] \div g1) * (b[1] \div g2), (a[2] \div g2) * (b[2] \div g1))
RDiv(a, b) == RMul(a, Rat(b[2], b[1]))
RLt(a, b) ==
  LET g == GCD(a[2], b[2])
  IN  a[1] * (b[2] \div g) < b[1] * (a[2] \div g)
RLe(a, b) ==
  LET g == GCD(a[2], b[2])
  IN  a[1] * (b[2] \div g) <= b[1] * (a[2] \div g)
RMin(a, b) == IF RLe(a, b) THEN a ELSE b

\* qRound of a non-negative rational: QSize * float rounds each side
QRound(a) == (2 * a[1] + a[2]) \div (2 * a[2])

\* the literals of canvas.py
FitMargin == Rat(9, 10)
ZoomIn == Rat(11, 10)
ZoomOut == Rat(9, 10)
MinScale == Rat(1, 10)
MaxScale == RInt(20)
FocusCap == RInt(5)
FocusPadding == Rat(1, 2)
NoiseFloor == RInt(10)

\* Canvas.image_to_widget
image_to_widget(sc, off, point) ==
  << RAdd(RMul(point[1], sc), off[1]), RAdd(RMul(point[2], sc), off[2]) >>

\* Canvas.widget_to_image
widget_to_image(sc, off, point) ==
  << RDiv(RSub(point[1], off[1]), sc), RDiv(RSub(point[2], off[2]), sc) >>

\* (kp_pos - pos).manhattanLength() of two widget points
RAbs(a) == << Abs(a[1]), a[2] >>
RManhattan(a, b) == RAdd(RAbs(RSub(a[1], b[1])), RAbs(RSub(a[2], b[2])))

\* the widget position of keypoint i of record p under the view v
KpWidgetPos(v, p, i) ==
  image_to_widget(v.scale, v.offset,
                  << RInt(p.keypoints[i].x), RInt(p.keypoints[i].y) >>)

get_keypoint_at_nearest(v, p, pos) ==
  IF v.image = << 0, 0 >> THEN 0
  ELSE LET hits == {i \in 1..Len(p.keypoints) :
                      RLt(RManhattan(KpWidgetPos(v, p, i), pos),
                          RInt(HitRadius))}
       IN  IF hits = {} THEN 0
           ELSE CHOOSE i \in hits :
                  \A j \in hits :
                     \/ RLt(RManhattan(KpWidgetPos(v, p, i), pos),
                            RManhattan(KpWidgetPos(v, p, j), pos))
                     \/ /\ RManhattan(KpWidgetPos(v, p, i), pos)
                             = RManhattan(KpWidgetPos(v, p, j), pos)
                        /\ i <= j

\* Canvas.get_keypoint_at under the view v: the index of the first keypoint
\* of p within reach of the widget point pos, 0 for None
get_keypoint_at_view(v, p, pos) ==
  IF v.image = << 0, 0 >> THEN 0
  ELSE LET hits == {i \in 1..Len(p.keypoints) :
                      RLt(RManhattan(KpWidgetPos(v, p, i), pos),
                          RInt(HitRadius))}
       IN  IF hits = {} THEN 0
           ELSE CHOOSE i \in hits : \A j \in hits : i <= j

\* the view of a canvas: v.scale, v.offset; v.widget and v.image are the
\* sizes of the widget and of the image (<< 0, 0 >>: no image)
\* Canvas.fit_to_window
fit_to_window(v) ==
  IF v.image = << 0, 0 >> THEN v
  ELSE LET scale_x == Rat(v.widget[1], v.image[1])
           scale_y == Rat(v.widget[2], v.image[2])
           sc == RMul(RMin(scale_x, scale_y), FitMargin)
           scaled_w == QRound(RMul(RInt(v.image[1]), sc))
           scaled_h == QRound(RMul(RInt(v.image[2]), sc))
       IN  [v EXCEPT !.scale = sc,
                     !.offset = << Rat(v.widget[1] - scaled_w, 2),
                                   Rat(v.widget[2] - scaled_h, 2) >>]

\* PoseData.has_valid_keypoints
has_valid_keypoints(p) ==
  \E i \in 1..Len(p.keypoints) : p.keypoints[i].x > 1 /\ p.keypoints[i].y > 1

SetMin(S) == CHOOSE x \in S : \A y \in S : x <= y
SetMax(S) == CHOOSE x \in S : \A y \in S : x >= y

\* PoseData.get_bounding_box: << min_x, min_y, max_x, max_y >>
get_bounding_box(p) ==
  LET valid == {i \in 1..Len(p.keypoints) :
                  p.keypoints[i].x > 1 /\ p.keypoints[i].y > 1}
      xs == {p.keypoints[i].x : i \in valid}
      ys == {p.keypoints[i].y : i \in valid}
  IN  IF valid = {} THEN << 0, 0, 0, 0 >>
      ELSE << SetMin(xs), SetMin(ys), SetMax(xs), SetMax(ys) >>

\* Canvas.focus_on_pose
focus_on_pose(v, p) ==
  IF v.image = << 0, 0 >> \/ ~ has_valid_keypoints(p) THEN fit_to_window(v)
  ELSE LET bb == get_bounding_box(p)
           bbox_w == RInt(bb[3] - bb[1])
           bbox_h == RInt(bb[4] - bb[2])
       IN  IF RLt(bbox_w, NoiseFloor) \/ RLt(bbox_h, NoiseFloor)
           THEN fit_to_window(v)
           ELSE
             LET padding_x == RMul(bbox_w, FocusPadding)
                 padding_y == RMul(bbox_h, FocusPadding)
                 target_x == RSub(RInt(bb[1]), RDiv(padding_x, RInt(2)))
                 target_y == RSub(RInt(bb[2]), RDiv(padding_y, RInt(2)))
                 target_w == RAdd(bbox_w, padding_x)
                 target_h == RAdd(bbox_h, padding_y)
                 new_scale == RMin(RDiv(RInt(v.widget[1]), target_w),
                                   RDiv(RInt(v.widget[2]), target_h))
                 sc == RMin(new_scale, FocusCap)
                 center_x == RAdd(target_x, RDiv(target_w, RInt(2)))
                 center_y == RAdd(target_y, RDiv(target_h, RInt(2)))
             IN  [v EXCEPT
                    !.scale = sc,
                    !.offset =
                       << RSub(Rat(v.widget[1], 2), RMul(center_x, sc)),
                          RSub(Rat(v.widget[2], 2), RMul(center_y, sc)) >>]

wheelEvent_mouse_anchor(v, mouse_pos, up) ==
  IF v.image = << 0, 0 >> THEN v
  ELSE LET new_scale == RMul(v.scale, IF up THEN ZoomIn ELSE ZoomOut)
       IN  IF RLe(MinScale, new_scale) /\ RLe(new_scale, MaxScale)
           THEN [v EXCEPT
                   !.scale = new_scale,
                   !.offset =
                      << RSub(v.offset[1],
                              RMul(mouse_pos[1], RSub(new_scale, v.scale))),
                         RSub(v.offset[2],
                              RMul(mouse_pos[2], RSub(new_scale, v.scale))) >>]
           ELSE v

\* Canvas.wheelEvent; up: angleDelta().y() > 0
wheelEvent(v, mouse_pos, up) ==
  IF v.image = << 0, 0 >> THEN v
  ELSE LET image_pos_before == widget_to_image(v.scale, v.offset, mouse_pos)
           new_scale == RMul(v.scale, IF up THEN ZoomIn ELSE ZoomOut)
       IN  IF RLe(MinScale, new_scale) /\ RLe(new_scale, MaxScale)
           THEN [v EXCEPT
                   !.scale = new_scale,
                   !.offset =
                      << RSub(v.offset[1],
                              RMul(image_pos_before[1],
                                   RSub(new_scale, v.scale))),
                         RSub(v.offset[2],
                              RMul(image_pos_before[2],
                                   RSub(new_scale, v.scale))) >>]
           ELSE v

(***************************************************************************)
(* main_window.py.  The project directory: images 1..NumImages (the file   *)
(* names, in sorted order), each at disk_image[i]: "origin" (in the image  *)
(* directory) or the name of the folder under ignore/ it was moved to;     *)
(* decodable[i] tells whether QImage can decode it.  disk_json maps every  *)
(* annotation path (directory, stem) to the file there: kind "absent",     *)
(* "garbage" (not JSON), "list" (a JSON array, items) or "dict" (a bare    *)
(* JSON object, d).  Folder names and reasons are written in ASCII:        *)
(* "corrupted" stands for the folder and reason of _move_corrupt_to_ignore,*)
(* "other" for the folder of move_to_ignore_other.                         *)
(***************************************************************************)
DIR_ORIGIN == "images"
DIR_JSON == "annotations"
DIR_INPAINT == "inpainting"
\* the project root itself, as a directory relative to the root
ROOT_DIR == "."
CorruptReason == "corrupted"

Absent == [kind |-> "absent"]
Garbage == [kind |-> "garbage"]
JsonArray(items) == [kind |-> "list", items |-> items]
JsonObject(d) == [kind |-> "dict", d |-> d]

JsonPaths == [dir : {DIR_ORIGIN, DIR_JSON, ROOT_DIR}, stem : 1..NumImages]

Exists(s, path) == s.disk_json[path].kind # "absent"

\* one entry of the list of file operations a handler made
Io(op, dir, stem, ok) == [op |-> op, dir |-> dir, stem |-> stem, ok |-> ok]

Log(s, e) == [s EXCEPT !.last.log = Append(@, e)]
Show(s, msg) == [s EXCEPT !.dialog = Append(@, msg)]

\* a fallible file operation: it fails when the fault plan says so
Fails(s) == s.failAt # 0 /\ s.nf + 1 = s.failAt
Count(s) == [s EXCEPT !.nf = @ + 1]

get_annotation_path_new_only(s, img) ==
  IF s.json_dir # "" /\ s.origin_dir # "" /\ s.json_dir # s.origin_dir
  THEN [dir |-> s.json_dir, stem |-> img]
  ELSE [dir |-> s.origin_dir, stem |-> img]

\* PoseEditor._get_annotation_path
get_annotation_path(s, img) ==
  IF s.json_dir # "" /\ s.origin_dir # "" /\ s.json_dir # s.origin_dir
  THEN LET json_path == [dir |-> s.json_dir, stem |-> img]
           old_json_path == [dir |-> s.origin_dir, stem |-> img]
       IN  IF ~ Exists(s, json_path) /\ Exists(s, old_json_path)
           THEN old_json_path
           ELSE json_path
  ELSE [dir |-> s.origin_dir, stem |-> img]

WriteAnnotation_lost(s, path) ==
  IF Fails(s)
  THEN [ok |-> FALSE,
        s |-> Log(Count(s), Io("write", path.dir, path.stem, FALSE))]
  ELSE [ok |-> TRUE,
        s |-> Log(Count(s), Io("write", path.dir, path.stem, TRUE))]

\* json.dump([pose_data.to_dict()], f) into path; ok = FALSE when open or
\* dump raises
WriteAnnotation(s, path) ==
  IF Fails(s)
  THEN [ok |-> FALSE,
        s |-> Log(Count(s), Io("write", path.dir, path.stem, FALSE))]
  ELSE [ok |-> TRUE,
        s |-> Log([Count(s) EXCEPT
                     !.disk_json[path] = JsonArray(<< to_dict(s.pose_data) >>),
                     !.written_for[path] = s.current_annotation_path.stem],
                  Io("write", path.dir, path.stem, TRUE))]

MoveImage_partial(s, img, folder) ==
  IF s.disk_image[img] # "origin"
  THEN [ok |-> FALSE, s |-> Log(Count(s), Io("move", folder, img, FALSE))]
  ELSE [ok |-> ~ Fails(s),
        s |-> Log([Count(s) EXCEPT !.disk_image[img] = folder],
                  Io("move", folder, img, ~ Fails(s)))]

\* shutil.move(image, ignore/<folder>/<name>)
MoveImage(s, img, folder) ==
  IF Fails(s) \/ s.disk_image[img] # "origin"
  THEN [ok |-> FALSE, s |-> Log(Count(s), Io("move", folder, img, FALSE))]
  ELSE [ok |-> TRUE,
        s |-> Log([Count(s) EXCEPT !.disk_image[img] = folder],
                  Io("move", folder, img, TRUE))]

\* meta.json: the keys the editor reads and writes, with the values that
\* stand for an absent key; garbage: the file does not parse
EmptyMeta ==
  [garbage |-> FALSE, last_opened |-> 0, last_opened_by |-> "",
   open_history |-> << >>, total_images |-> -1, last_image |-> 0]

\* PoseEditor._read_meta: {} when the file is absent or does not parse
read_meta(s) ==
  IF s.project_root = "" \/ s.meta.garbage THEN EmptyMeta ELSE s.meta

\* PoseEditor._write_meta
write_meta(s, m) ==
  IF s.project_root = "" THEN s ELSE [s EXCEPT !.meta = m]

\* getpass.getuser()
Username == "annotator"

\* history[-50:]
HistoryCap == 50

KeepOldest(history) ==
  IF Len(history) <= HistoryCap THEN history
  ELSE SubSeq(history, 1, HistoryCap)

\* history[-50:]
KeepRecent(history) ==
  IF Len(history) <= HistoryCap THEN history
  ELSE SubSeq(history, Len(history) - HistoryCap + 1, Len(history))

\* PoseEditor._update_meta; the clock moves on after it was read
update_meta(s) ==
  IF s.project_root = "" THEN s
  ELSE LET m == read_meta(s)
           history == Append(m.open_history,
                             [time |-> s.now, user |-> Username])
           count == Cardinality({i \in 1..NumImages :
                                   s.disk_image[i] = "origin"})
       IN  write_meta([s EXCEPT !.now = @ + 1],
                      [m EXCEPT !.last_opened = s.now,
                                !.last_opened_by = Username,
                                !.open_history = KeepRecent(history),
                                !.total_images = count])

\* PoseEditor._save_last_image_to_meta
save_last_image_to_meta(s) ==
  IF s.project_root = "" \/ s.current_image_path = 0 THEN s
  ELSE Log(write_meta(s, [read_meta(s) EXCEPT
                            !.last_image = s.current_image_path]),
           Io("meta", "", s.current_image_path, TRUE))

reset_keeps_selection(s, show_finished_message) ==
  LET t == [s EXCEPT !.image = 0,
                     !.pose_data = NewPoseData,
                     !.current_image_path = 0,
                     !.current_annotation_path = NoPath]
  IN  IF show_finished_message THEN Show(t, "all_done") ELSE t

\* PoseEditor._reset_after_image_list_empty
reset_after_image_list_empty(s, show_finished_message) ==
  LET used == {s.undo_stack[i].pose_data : i \in 1..Len(s.undo_stack)}
                \cup {s.redo_stack[i].pose_data : i \in 1..Len(s.redo_stack)}
      fresh == CHOOSE n \in 0..(Cardinality(used)) : n \notin used
      t == [s EXCEPT !.image = 0,
                     !.pose_data = NewPoseData,
                     !.pose_id = fresh,
                     !.selected_keypoint = 0,
                     !.current_image_path = 0,
                     !.current_annotation_path = NoPath]
  IN  IF show_finished_message THEN Show(t, "all_done") ELSE t

\* PoseEditor.update_score_ui / _set_score_group_value: the checked button
\* of each group, -1 for none
update_score_ui(s, pose) ==
  LET checked(value) == IF value >= 0 /\ value \in 0..5 THEN value ELSE -1
  IN  [s EXCEPT !.score_ui =
         [novelty |-> checked(pose.novelty),
          environment_interaction |-> checked(pose.environment_interaction),
          person_fit |-> checked(pose.person_fit)]]

\* the record load_annotation builds from the file at json_path
ParseAnnotation(file) ==
  CASE file.kind = "list" ->
         IF Len(file.items) > 0
         THEN LET r == from_dict(file.items[1])
              IN  IF r.ok THEN r.pose ELSE NewPoseData
         ELSE NewPoseData
    [] file.kind = "dict" ->
         LET r == from_dict(file.d)
         IN  IF r.ok THEN r.pose ELSE NewPoseData
    [] OTHER -> NewPoseData

\* PoseEditor.load_annotation
load_annotation(s) ==
  IF s.current_image_path = 0 THEN s
  ELSE LET json_path == get_annotation_path(s, s.current_image_path)
           pose == ParseAnnotation(s.disk_json[json_path])
           t == [s EXCEPT !.pose_data = pose,
                          !.pose_id = 0,
                          !.current_annotation_path = json_path,
                          !.selected_keypoint = 1]
       IN  update_score_ui(Log(t, Io("read", json_path.dir, json_path.stem,
                                     TRUE)), pose)

RECURSIVE load_current_image(_)

\* PoseEditor._move_corrupt_to_ignore
move_corrupt_to_ignore(s) ==
  IF s.current_image_path = 0 THEN s
  ELSE LET img == s.current_image_path
           json_path == get_annotation_path(s, img)
           s1 == [s EXCEPT !.pose_data.skip_reason = CorruptReason]
           w == WriteAnnotation(s1, json_path)
           m == MoveImage(w.s, img, CorruptReason)
       IN  IF ~ w.ok THEN Show(w.s, "move_corrupt_failed")
           ELSE IF ~ m.ok THEN Show(m.s, "move_corrupt_failed")
           ELSE LET s2 == [m.s EXCEPT !.image_files =
                             SubSeq(@, 1, s.current_index)
                               \o SubSeq(@, s.current_index + 2, Len(@))]
                IN  IF s2.image_files = << >>
                    THEN reset_after_image_list_empty(s2, FALSE)
                    ELSE load_current_image(
                           IF s2.current_index >= Len(s2.image_files)
                           THEN [s2 EXCEPT !.current_index =
                                   Len(s2.image_files) - 1]
                           ELSE s2)

\* PoseEditor.load_current_image
load_current_image(s) ==
  IF s.image_files = << >> THEN s
  ELSE LET img == s.image_files[s.current_index + 1]
           s1 == Log([s EXCEPT !.current_image_path = img],
                     Io("decode", "", img, decodable[img]))
       IN  IF ~ decodable[img]
           THEN move_corrupt_to_ignore(s1)
           ELSE UndoStackClear(load_annotation([s1 EXCEPT !.image = img]))

\* PoseEditor.save_current
save_current(s) ==
  IF s.current_annotation_path = NoPath THEN s
  ELSE LET w == WriteAnnotation(s, s.current_annotation_path)
       IN  IF w.ok THEN save_last_image_to_meta(w.s)
           ELSE Show(w.s, "save_failed")

has_complete_scores_two(pose) ==
  /\ pose.novelty >= 0
  /\ pose.person_fit >= 0

\* PoseEditor.has_complete_scores
has_complete_scores(pose) ==
  /\ pose.novelty >= 0
  /\ pose.environment_interaction >= 0
  /\ pose.person_fit >= 0

validate_never_blocks(s) == [ok |-> TRUE, s |-> s]

\* PoseEditor.validate_before_navigate: the result, and the warning shown
validate_before_navigate(s) ==
  IF s.pose_data.skip_reason # "" THEN [ok |-> TRUE, s |-> s]
  ELSE IF ~ has_complete_scores(s.pose_data)
       THEN [ok |-> FALSE, s |-> Show(s, "scores_incomplete")]
       ELSE [ok |-> TRUE, s |-> s]

\* PoseEditor.prev_image
prev_image(s) ==
  IF s.image_files # << >> /\ s.current_index > 0
  THEN load_current_image(
         [save_current(s) EXCEPT !.current_index = @ - 1])
  ELSE s

\* PoseEditor.next_image
next_image(s) ==
  IF s.image_files # << >> /\ s.current_index < Len(s.image_files) - 1
  THEN LET v == validate_before_navigate(s)
       IN  IF ~ v.ok THEN v.s
           ELSE load_current_image(
                  [save_current(v.s) EXCEPT !.current_index = @ + 1])
  ELSE s

should_process_image_unscored(s) == ~ has_complete_scores(s.pose_data)

\* PoseEditor.should_process_image
should_process_image(s) ==
  IF s.pose_data.skip_reason # "" THEN FALSE
  ELSE ~ has_complete_scores(s.pose_data)

RECURSIVE Scan(_, _)
\* the while loop of next_processable_image
Scan(s, original_index) ==
  IF s.current_index < Len(s.image_files) - 1
  THEN LET t == load_current_image([s EXCEPT !.current_index = @ + 1])
       IN  IF should_process_image(t) THEN t ELSE Scan(t, original_index)
  ELSE Show(load_current_image([s EXCEPT !.current_index = original_index]),
            "nothing_left")

\* PoseEditor.next_processable_image
next_processable_image(s) ==
  IF s.image_files = << >> THEN s
  ELSE LET v == validate_before_navigate(s)
       IN  IF ~ v.ok THEN v.s
           ELSE Scan(save_current(v.s), s.current_index)

\* PoseEditor.move_to_ignore_category
move_to_ignore_category(s, category, custom_reason) ==
  IF s.current_image_path = 0 THEN s
  ELSE LET img == s.current_image_path
           json_path == get_annotation_path(s, img)
           reason_text == IF custom_reason # "" THEN custom_reason
                          ELSE category
           s0 == [s EXCEPT !.last.img = img, !.last.path = json_path,
                           !.last.custom = custom_reason,
                           !.last.category = category]
           s1 == [s0 EXCEPT !.pose_data.skip_reason = reason_text]
           w == WriteAnnotation(s1, json_path)
           m == MoveImage(w.s, img, category)
       IN  IF ~ w.ok
           THEN Show([w.s EXCEPT !.last.outcome = "write_failed"],
                     "move_failed")
           ELSE IF ~ m.ok
           THEN Show([m.s EXCEPT !.last.outcome = "move_failed"],
                     "move_failed")
           ELSE IF s.current_index >= Len(s.image_files)
           THEN Show([m.s EXCEPT !.last.outcome = "index_error"],
                     "move_failed")
           ELSE LET s2 == [m.s EXCEPT
                             !.last.outcome = "ok",
                             !.image_files =
                                SubSeq(@, 1, s.current_index)
                                  \o SubSeq(@, s.current_index + 2, Len(@))]
                IN  IF s2.image_files = << >>
                    THEN reset_after_image_list_empty(s2, TRUE)
                    ELSE load_current_image(
                           IF s2.current_index >= Len(s2.image_files)
                           THEN [s2 EXCEPT !.current_index =
                                   Len(s2.image_files) - 1]
                           ELSE s2)

\* PoseEditor.load_images_from_folder(origin_dir, autoload=False)
load_images_from_folder(s) ==
  LET present == {i \in 1..NumImages : s.disk_image[i] = "origin"}
      Sorted[S \in SUBSET (1..NumImages)] ==
        IF S = {} THEN << >>
        ELSE LET m == CHOOSE x \in S : \A y \in S : x <= y
             IN  << m >> \o Sorted[S \ {m}]
      t == [s EXCEPT !.image_files = Sorted[present]]
  IN  IF t.image_files # << >> THEN [t EXCEPT !.current_index = 0]
      ELSE Show(t, "no_images")

\* PoseEditor._load_project
load_project(s) ==
  LET u == update_meta(s)
      last_image == read_meta(u).last_image
      t == load_images_from_folder(u)
      found == {i \in 1..Len(t.image_files) : t.image_files[i] = last_image}
  IN  IF t.image_files = << >> THEN t
      ELSE load_current_image(
             [t EXCEPT !.current_index =
                IF last_image # 0 /\ found # {}
                THEN (CHOOSE i \in found : TRUE) - 1
                ELSE 0])

\* PoseEditor.open_folder on a root that has the images/ subdirectory
open_folder(s) ==
  load_project([s EXCEPT !.project_root = "root",
                         !.origin_dir = DIR_ORIGIN,
                         !.json_dir = DIR_JSON,
                         !.inpaint_dir = DIR_INPAINT])

\* PoseEditor._migrate_to_project_structure: the images of the root go to
\* images/ (they stay "origin", the image directory, in disk_image) and its
\* annotation files to annotations/
migrate_to_project_structure(s) ==
  LET moved ==
        [p \in JsonPaths |->
           IF p.dir = ROOT_DIR THEN Absent
           ELSE IF p.dir = DIR_JSON
                   /\ s.disk_json[[dir |-> ROOT_DIR, stem |-> p.stem]].kind
                        # "absent"
           THEN s.disk_json[[dir |-> ROOT_DIR, stem |-> p.stem]]
           ELSE s.disk_json[p]]
      t == [s EXCEPT !.origin_exists = TRUE,
                     !.disk_json = moved,
                     !.project_root = "root",
                     !.origin_dir = DIR_ORIGIN,
                     !.json_dir = DIR_JSON,
                     !.inpaint_dir = DIR_INPAINT]
  IN  load_project(Show(t, "migrated"))

\* PoseEditor.open_folder on a root without the images/ subdirectory; reply
\* is the answer to the migration question
open_folder_without_origin(s, reply) ==
  IF \E i \in 1..NumImages : s.disk_image[i] = "origin"
  THEN IF reply = "Yes"
       THEN open_folder(migrate_to_project_structure(s))
       ELSE load_project([s EXCEPT !.project_root = "root",
                                   !.origin_dir = ROOT_DIR,
                                   !.json_dir = ROOT_DIR,
                                   !.inpaint_dir = DIR_INPAINT])
  ELSE Show([s EXCEPT !.origin_exists = TRUE], "structure_created")

\* PoseEditor._on_exclusive_score_click: the clicked button toggles, the
\* others of the group are unchecked
on_exclusive_score_click(s, score_type, clicked_id) ==
  LET nowChecked == s.score_ui[score_type] # clicked_id
      value == IF nowChecked THEN clicked_id ELSE -1
      t == [s EXCEPT !.score_ui[score_type] = value]
  IN  CASE score_type = "novelty" -> [t EXCEPT !.pose_data.novelty = value]
        [] score_type = "environment_interaction" ->
             [t EXCEPT !.pose_data.environment_interaction = value]
        [] score_type = "person_fit" ->
             [t EXCEPT !.pose_data.person_fit = value]

\* what UndoStack.undo and UndoStack.redo return, kept in last.outcome
Returned(s, b) == [s EXCEPT !.last.outcome = IF b THEN "True" ELSE "False"]

\* PoseEditor.undo with the emptiness test of UndoStack.undo
undo(s) ==
  IF s.undo_stack = << >> THEN Returned(s, FALSE)
  ELSE Returned(UndoStackUndo(s), TRUE)

\* PoseEditor.redo with the emptiness test of UndoStack.redo
redo(s) ==
  IF s.redo_stack = << >> THEN Returned(s, FALSE)
  ELSE Returned(UndoStackRedo(s), TRUE)

(***************************************************************************)
(* The environment the behaviours start from: what the project directory   *)
(* may hold when the editor is started.                                    *)
(***************************************************************************)
\* a record as the editor saves it: keypoint 0 annotated, fully scored
PoseScored ==
  [NewPoseData EXCEPT
     !.keypoints[1] = Keypoint("nose", 120, 80, 1),
     !.raw_id = 7,
     !.raw_scores = [i \in 1..Len(KEYPOINT_NAMES) |-> 5],
     !.novelty = 3, !.environment_interaction = 2, !.person_fit = 4]

\* the same with one score missing
PosePartial == [PoseScored EXCEPT !.person_fit = -1]

\* an unscored record that carries a skip reason (a triage whose move failed)
PoseSkipped ==
  [NewPoseData EXCEPT !.raw_id = 9, !.skip_reason = "blur"]

\* the project directories the workflow starts from: the annotation file of
\* images 1, 2 and 3 (further images have none), and the undecodable image
\* (0: none); images/<stem>.json is absent
Layouts ==
  LET Scored  == JsonArray(<< to_dict(PoseScored) >>)
      Partial == JsonArray(<< to_dict(PosePartial) >>)
      Skipped == JsonArray(<< to_dict(PoseSkipped) >>)
  IN  { [json |-> << Scored, Absent, Partial >>, bad |-> 0],
        [json |-> << Partial, Scored, Absent >>, bad |-> 0],
        [json |-> << Skipped, Scored, Scored >>, bad |-> 0],
        [json |-> << Absent, Absent, Absent >>, bad |-> 0],
        [json |-> << Scored, Absent, Scored >>, bad |-> 2],
        [json |-> << Absent, Scored, Partial >>, bad |-> 1],
        [json |-> << Partial, Scored, Absent >>, bad |-> 3] }

LayoutJson(l) ==
  [p \in JsonPaths |->
     IF p.dir = DIR_JSON /\ p.stem <= Len(l.json) THEN l.json[p.stem]
     ELSE Absent]

LayoutDecodable(l) == [i \in 1..NumImages |-> i # l.bad]

NoSerde ==
  [stage |-> "off", src |-> "", pose |-> NewPoseData,
   doc |-> [keypoints |-> << >>], out |-> NewPoseData, ok |-> TRUE]

\* PoseEditor.__init__, Canvas.__init__, UndoStack.__init__
Constructed ==
  /\ project_root = "" /\ origin_dir = "" /\ json_dir = ""
  /\ inpaint_dir = ""
  /\ image_files = << >>
  /\ current_index = 0
  /\ current_image_path = 0
  /\ current_annotation_path = NoPath
  /\ score_ui = [novelty |-> -1, environment_interaction |-> -1,
                 person_fit |-> -1]
  /\ image = 0
  /\ pose_data = NewPoseData
  /\ pose_id = 0
  /\ selected_keypoint = 0
  /\ dragging = FALSE
  /\ drag_start_pos = NoPoint
  /\ undo_stack = << >>
  /\ redo_stack = << >>
  /\ dialog = << >>
  /\ last = [op |-> "init", outcome |-> "", img |-> 0, path |-> NoPath,
             custom |-> "", category |-> "", log |-> << >>]
  /\ written_for = [p \in JsonPaths |-> -1]
  /\ pre_edit = KpState(NewPoseData)
  /\ edited = KpState(NewPoseData)
  /\ lost_edit = FALSE
  /\ phase = "edit"
  /\ clicks = 0
  /\ button_down = FALSE
  /\ scale = RInt(1)
  /\ offset = << RInt(0), RInt(0) >>
  /\ widget_size = << 800, 600 >>
  /\ image_size = << 0, 0 >>
  /\ view_last = [op |-> "init", pos |-> << RInt(0), RInt(0) >>,
                  zoomed |-> FALSE]
  /\ faults = 0

Init ==
  /\ Constructed
  /\ disk_image = [i \in 1..NumImages |-> "origin"]
  /\ origin_exists = TRUE
  /\ \E l \in Layouts : /\ decodable = LayoutDecodable(l)
                         /\ disk_json = LayoutJson(l)
  /\ meta = EmptyMeta
  /\ now = 1
  /\ events_left = MaxFlowEvents
  /\ sd = NoSerde

(***************************************************************************)
(* The handlers as actions.  f is the fault plan: 0, or the number of the  *)
(* file operation of this handler that fails.                              *)
(***************************************************************************)
(***************************************************************************)
(* phase follows the order of a session since the last load: "edit" while  *)
(* only edits happened, "undo" while they are being undone, "redo" while   *)
(* they are being redone, "off" once that order is broken or a load, undo  *)
(* or redo arrives with the left button held.  edited is the keypoint      *)
(* state at the first undo.                                                *)
(***************************************************************************)
EditPhase(s) ==
  [s EXCEPT !.phase = IF @ = "edit" THEN "edit" ELSE "off"]

UndoPhase(s) ==
  [s EXCEPT !.phase = IF phase \in {"edit", "undo"} /\ ~ button_down
                      THEN "undo" ELSE "off",
            !.edited = IF phase = "edit" THEN KpState(pose_data) ELSE @]

RedoPhase(s) ==
  [s EXCEPT !.phase = IF phase \in {"undo", "redo"} /\ ~ button_down
                      THEN "redo" ELSE "off"]

LoadPhase(s) ==
  [s EXCEPT !.phase = IF button_down THEN "off" ELSE @]

FaultPlans == IF faults < MaxFaults THEN 0..3 ELSE {0}

OpenFolder ==
  /\ events_left > 0
  /\ origin_exists
  /\ \E f \in FaultPlans :
        Install(LoadPhase(open_folder(Cur("open_folder", f))))

OpenFolderWithoutOrigin ==
  /\ events_left > 0
  /\ ~ origin_exists
  /\ \E f \in FaultPlans, reply \in {"Yes", "No"} :
        Install(LoadPhase(open_folder_without_origin(Cur("open_folder", f),
                                                     reply)))

NextImage ==
  /\ events_left > 0
  /\ \E f \in FaultPlans : Install(next_image(Cur("next_image", f)))

PrevImage ==
  /\ events_left > 0
  /\ \E f \in FaultPlans : Install(prev_image(Cur("prev_image", f)))

NextProcessableImage ==
  /\ events_left > 0
  /\ \E f \in FaultPlans :
       Install(next_processable_image(Cur("next_processable_image", f)))

SaveCurrent ==
  /\ events_left > 0
  /\ current_annotation_path # NoPath
  /\ \E f \in FaultPlans : Install(save_current(Cur("save_current", f)))

\* the preset category keys, and "other" with a typed reason
TriageInputs == { << "blur", "" >>, << "other", "typed reason" >> }

MoveToIgnoreCategory ==
  /\ events_left > 0
  /\ current_image_path # 0
  /\ \E in \in TriageInputs, f \in FaultPlans :
        Install(move_to_ignore_category(Cur("move_to_ignore_category", f),
                                        in[1], in[2]))

ScoreTypes == {"novelty", "environment_interaction", "person_fit"}
ClickIds == {0, 4}

ScoreClick ==
  /\ events_left > 0
  /\ clicks < MaxClicks
  /\ \E score_type \in ScoreTypes, id \in ClickIds :
        InstallWith(on_exclusive_score_click(Cur("score_click", 0),
                                             score_type, id),
                    clicks + 1, button_down)

Keys == {"S", "D", "Space"}

\* PoseEditor._apply_visibility_shortcut
KeyPressEvent ==
  /\ events_left > 0
  /\ Len(undo_stack) < MaxHistory
  /\ \E key \in Keys : Install(EditPhase(KeyPress(Cur("key_press", 0), key)))

Undo ==
  /\ events_left > 0
  /\ Install(UndoPhase(undo(Cur("undo", 0))))

Redo ==
  /\ events_left > 0
  /\ Install(RedoPhase(redo(Cur("redo", 0))))

\* the image points the pointer is put on
Points == { QPointF(0, 0), QPointF(120, 80), QPointF(124, 83) }

MousePressEvent ==
  /\ events_left > 0
  /\ Len(undo_stack) < MaxHistory
  /\ ~ button_down
  /\ \E pos \in Points, ctrl \in BOOLEAN :
        /\ \/ ctrl /\ selected_keypoint # 0
           \/ get_keypoint_at(Cur("", 0), pos) <= MaxActiveKp
        /\ InstallWith(EditPhase(MousePress(Cur("mouse_press", 0), pos,
                                                    ctrl)),
                       clicks, TRUE)

MouseMoveEvent ==
  /\ events_left > 0
  /\ \E pos \in Points :
        Install(EditPhase(MouseMove(Cur("mouse_move", 0), pos)))

MouseReleaseEvent ==
  /\ events_left > 0
  /\ Len(undo_stack) < MaxHistory
  /\ button_down
  /\ InstallWith(EditPhase(MouseRelease(Cur("mouse_release", 0))),
                 clicks, FALSE)

(***************************************************************************)
(* The project workflow: open, score, toggle visibility, save, navigate    *)
(* and triage, with file operations that may fail.                         *)
(***************************************************************************)
Next ==
  \/ OpenFolder
  \/ NextImage
  \/ PrevImage
  \/ NextProcessableImage
  \/ SaveCurrent
  \/ MoveToIgnoreCategory
  \/ ScoreClick
  \/ KeyPressEvent
  \/ Undo
  \/ Redo

Spec == Init /\ [][Next]_vars

(***************************************************************************)
(* An edit session on one image: pointer and key events, undo and redo.    *)
(***************************************************************************)
InitEdit ==
  /\ Constructed
  /\ disk_image = [i \in 1..NumImages |-> "origin"]
  /\ origin_exists = TRUE
  /\ decodable = [i \in 1..NumImages |-> TRUE]
  /\ \E file \in {Absent, JsonArray(<< to_dict(PoseScored) >>)} :
        disk_json = [p \in JsonPaths |->
                       IF p = [dir |-> DIR_JSON, stem |-> 1] THEN file
                       ELSE Absent]
  /\ meta = EmptyMeta
  /\ now = 1
  /\ events_left = MaxEvents
  /\ sd = NoSerde

NextEdit ==
  \/ OpenFolder
  \/ MousePressEvent
  \/ MouseMoveEvent
  \/ MouseReleaseEvent
  \/ KeyPressEvent
  \/ Undo
  \/ Redo

SpecEdit == InitEdit /\ [][NextEdit]_vars

(***************************************************************************)
(* Serialisation: to_dict and from_dict applied to records and to legacy   *)
(* annotation objects drawn from bounded sets.                             *)
(***************************************************************************)
SerdePoses ==
  { [NewPoseData EXCEPT
       !.keypoints[1] = Keypoint("nose", x, y, v),
       !.keypoints[17] = IF far THEN Keypoint("right_ankle", 33, 44, 1)
                         ELSE @,
       !.raw_id = IF far THEN 7 ELSE 0,
       !.raw_scores = IF scored THEN [i \in 1..Len(KEYPOINT_NAMES) |-> 5]
                      ELSE << >>,
       !.novelty = n, !.environment_interaction = e, !.person_fit = pf,
       !.skip_reason = IF n = -1 THEN "blur" ELSE ""] :
     x \in {0, 120}, y \in {0, 80}, v \in {0, 1}, far \in BOOLEAN,
     scored \in BOOLEAN, n \in {-1, 0, 5}, e \in {-1, 2}, pf \in {-1, 4} }

\* a legacy annotation object: n entries {name, x, y, visibility}, the first
\* with visibility v0, named after the schema or not
LegacyDoc(n, v0, schemaNames) ==
  [keypoints |->
     [i \in 1..n |->
        JDict([name |-> IF schemaNames /\ i <= Len(KEYPOINT_NAMES)
                        THEN KEYPOINT_NAMES[i] ELSE "point",
               x |-> 10 * i, y |-> 5 * i,
               visibility |-> IF i = 1 THEN v0 ELSE i % 3])],
   score |-> 4]

LegacyDocs ==
  { LegacyDoc(n, v0, b) : n \in {1, 2, 17, 18}, v0 \in {0, 1, 2},
                          b \in BOOLEAN }

\* a COCO-style annotation object: n entries [x, y] and n detector scores
\* (in tenths, alternately above and below the threshold), the visibility
\* array absent ("none"), on the scale 0/1 ("binary") or on the COCO scale
\* 0/1/2 ("coco"), and a novelty score; the environment score is stored
\* under the older key environment_fit
CocoDoc(n, vis, nov) ==
  [k \in {"id", "keypoints", "scores", "novelty", "environment_fit"}
          \cup (IF vis = "none" THEN {} ELSE {"visibility"}) |->
     CASE k = "id" -> 3
       [] k = "keypoints" -> [i \in 1..n |-> JList(<< 10 * i, 5 * i >>)]
       [] k = "scores" -> [i \in 1..n |-> IF i % 2 = 1 THEN 9 ELSE 1]
       [] k = "novelty" -> nov
       [] k = "environment_fit" -> 2
       [] k = "visibility" ->
            [i \in 1..n |-> IF vis = "binary" THEN i % 2 ELSE i % 3]]

CocoDocs ==
  { CocoDoc(n, vis, nov) : n \in {1, 17, 18},
                           vis \in {"none", "binary", "coco"},
                           nov \in {-1, 3, 7} }

InitSerde ==
  /\ Constructed
  /\ disk_image = [i \in 1..NumImages |-> "origin"]
  /\ origin_exists = TRUE
  /\ decodable = [i \in 1..NumImages |-> TRUE]
  /\ disk_json = [p \in JsonPaths |-> Absent]
  /\ meta = EmptyMeta
  /\ now = 1
  /\ events_left = 0
  /\ \/ \E p \in SerdePoses :
           sd = [NoSerde EXCEPT !.stage = "pose", !.src = "record",
                                !.pose = p]
     \/ \E d \in LegacyDocs :
           sd = [NoSerde EXCEPT !.stage = "doc", !.src = "legacy", !.doc = d]
     \/ \E d \in CocoDocs :
           sd = [NoSerde EXCEPT !.stage = "doc", !.src = "coco", !.doc = d]

SerdeToDict ==
  /\ sd.stage = "pose"
  /\ sd' = [sd EXCEPT !.stage = "doc", !.doc = to_dict(sd.pose)]
  /\ UNCHANGED << project_root, origin_dir, json_dir, image_files,
                  current_index, current_image_path, current_annotation_path,
                  score_ui, image, pose_data, pose_id, selected_keypoint,
                  dragging, drag_start_pos, undo_stack, redo_stack,
                  disk_image, disk_json, decodable, meta, dialog, last,
                  written_for, pre_edit, edited, lost_edit, phase,
                  button_down, clicks, events_left, faults, scale, offset,
                  widget_size, image_size, view_last, now,
                  inpaint_dir, origin_exists >>

SerdeFromDict ==
  /\ sd.stage = "doc"
  /\ LET r == from_dict(sd.doc)
     IN  sd' = [sd EXCEPT !.stage = "parsed", !.out = r.pose, !.ok = r.ok]
  /\ UNCHANGED << project_root, origin_dir, json_dir, image_files,
                  current_index, current_image_path, current_annotation_path,
                  score_ui, image, pose_data, pose_id, selected_keypoint,
                  dragging, drag_start_pos, undo_stack, redo_stack,
                  disk_image, disk_json, decodable, meta, dialog, last,
                  written_for, pre_edit, edited, lost_edit, phase,
                  button_down, clicks, events_left, faults, scale, offset,
                  widget_size, image_size, view_last, now,
                  inpaint_dir, origin_exists >>

\* the record parsed from an annotation file is the one to_dict is applied
\* to at the next save (load_annotation followed by save_current)
SerdeReload ==
  /\ sd.stage = "parsed" /\ sd.ok
  /\ sd.src \in {"legacy", "coco"}
  /\ sd' = [sd EXCEPT !.stage = "pose", !.src = "loaded", !.pose = sd.out]
  /\ UNCHANGED << project_root, origin_dir, json_dir, image_files,
                  current_index, current_image_path, current_annotation_path,
                  score_ui, image, pose_data, pose_id, selected_keypoint,
                  dragging, drag_start_pos, undo_stack, redo_stack,
                  disk_image, disk_json, decodable, meta, dialog, last,
                  written_for, pre_edit, edited, lost_edit, phase,
                  button_down, clicks, events_left, faults, scale, offset,
                  widget_size, image_size, view_last, now,
                  inpaint_dir, origin_exists >>

NextSerde == SerdeToDict \/ SerdeFromDict \/ SerdeReload

SpecSerde == InitSerde /\ [][NextSerde]_vars

(***************************************************************************)
(* The view: images of several sizes and records of several extents are    *)
(* shown in a canvas that is resized, fitted, focused and zoomed.          *)
(***************************************************************************)
\* a record whose keypoints span a box of 200 x 320 pixels
PoseSpread ==
  [PoseScored EXCEPT !.keypoints[2] = Keypoint("left_eye", 320, 400, 1)]

\* a record whose keypoints span a large photograph
PoseWide ==
  [PoseScored EXCEPT !.keypoints[2] = Keypoint("left_eye", 7900, 7900, 1)]

\* a record whose keypoints span 12 x 16 pixels
PoseSmall ==
  [PoseScored EXCEPT !.keypoints[2] = Keypoint("left_eye", 132, 96, 1)]

ViewPoses == { NewPoseData, PoseScored, PoseSpread, PoseWide, PoseSmall }
ImageSizes == { << 640, 480 >>, << 4000, 3000 >>, << 8000, 8000 >>,
                << 10, 10 >> }
WidgetSizes == { << 800, 600 >>, << 1600, 1000 >> }
WheelPoints == { << RInt(0), RInt(0) >>, << RInt(400), RInt(300) >>,
                 << RInt(123), RInt(457) >> }

View == [scale |-> scale, offset |-> offset, widget |-> widget_size,
         image |-> image_size]

InstallView(v, op, pos) ==
  /\ scale' = v.scale
  /\ offset' = v.offset
  /\ view_last' = [op |-> op, pos |-> pos, zoomed |-> v.scale # scale]
  /\ events_left' = events_left - 1

InitView ==
  /\ Constructed
  /\ disk_image = [i \in 1..NumImages |-> "origin"]
  /\ origin_exists = TRUE
  /\ decodable = [i \in 1..NumImages |-> TRUE]
  /\ disk_json = [p \in JsonPaths |-> Absent]
  /\ meta = EmptyMeta
  /\ now = 1
  /\ events_left = MaxViewEvents
  /\ sd = NoSerde

\* the end of load_current_image and load_annotation: set_image,
\* set_pose_data, then focus_on_pose or fit_to_window
ViewLoad ==
  /\ events_left > 0
  /\ image = 0
  /\ \E size \in ImageSizes, p \in ViewPoses :
        /\ image' = 1
        /\ image_size' = size
        /\ pose_data' = p
        /\ LET v == [View EXCEPT !.image = size]
           IN  InstallView(IF has_valid_keypoints(p) THEN focus_on_pose(v, p)
                           ELSE fit_to_window(v),
                           "load", << RInt(0), RInt(0) >>)
  /\ UNCHANGED << project_root, origin_dir, json_dir, image_files,
                  current_index, current_image_path, current_annotation_path,
                  score_ui, pose_id, selected_keypoint,
                  dragging, drag_start_pos, undo_stack, redo_stack,
                  disk_image, disk_json, decodable, meta, dialog, last,
                  written_for, pre_edit, edited, lost_edit, phase,
                  button_down, clicks, faults, sd, widget_size, now,
                  inpaint_dir, origin_exists >>

\* PoseEditor.fit_to_window
FitToWindow ==
  /\ events_left > 0
  /\ InstallView(fit_to_window(View), "fit", << RInt(0), RInt(0) >>)
  /\ UNCHANGED << project_root, origin_dir, json_dir, image_files,
                  current_index, current_image_path, current_annotation_path,
                  score_ui, image, pose_data, pose_id, selected_keypoint,
                  dragging, drag_start_pos, undo_stack, redo_stack,
                  disk_image, disk_json, decodable, meta, dialog, last,
                  written_for, pre_edit, edited, lost_edit, phase,
                  button_down, clicks, faults, sd, widget_size, image_size, now,
                  inpaint_dir, origin_exists >>

\* PoseEditor.focus_on_pose
FocusOnPose ==
  /\ events_left > 0
  /\ InstallView(focus_on_pose(View, pose_data), "focus",
                 << RInt(0), RInt(0) >>)
  /\ UNCHANGED << project_root, origin_dir, json_dir, image_files,
                  current_index, current_image_path, current_annotation_path,
                  score_ui, image, pose_data, pose_id, selected_keypoint,
                  dragging, drag_start_pos, undo_stack, redo_stack,
                  disk_image, disk_json, decodable, meta, dialog, last,
                  written_for, pre_edit, edited, lost_edit, phase,
                  button_down, clicks, faults, sd, widget_size, image_size, now,
                  inpaint_dir, origin_exists >>

\* Canvas.wheelEvent
WheelEvent ==
  /\ events_left > 0
  /\ \E mouse_pos \in WheelPoints, up \in BOOLEAN :
        InstallView(wheelEvent(View, mouse_pos, up), "wheel", mouse_pos)
  /\ UNCHANGED << project_root, origin_dir, json_dir, image_files,
                  current_index, current_image_path, current_annotation_path,
                  score_ui, image, pose_data, pose_id, selected_keypoint,
                  dragging, drag_start_pos, undo_stack, redo_stack,
                  disk_image, disk_json, decodable, meta, dialog, last,
                  written_for, pre_edit, edited, lost_edit, phase,
                  button_down, clicks, faults, sd, widget_size, image_size, now,
                  inpaint_dir, origin_exists >>

\* the window is resized: the canvas has no resizeEvent, only its size
\* changes
ResizeEvent ==
  /\ events_left > 0
  /\ \E size \in WidgetSizes \ {widget_size} : widget_size' = size
  /\ InstallView(View, "resize", << RInt(0), RInt(0) >>)
  /\ UNCHANGED << project_root, origin_dir, json_dir, image_files,
                  current_index, current_image_path, current_annotation_path,
                  score_ui, image, pose_data, pose_id, selected_keypoint,
                  dragging, drag_start_pos, undo_stack, redo_stack,
                  disk_image, disk_json, decodable, meta, dialog, last,
                  written_for, pre_edit, edited, lost_edit, phase,
                  button_down, clicks, faults, sd, image_size, now,
                  inpaint_dir, origin_exists >>

\* where the pointer is pressed: on the pixel of keypoint 0 or 1, or a
\* few pixels away from it
PressOffsets == { << 0, 0 >>, << 4, 5 >>, << 9, 0 >>, << 10, 0 >>,
                  << -6, -5 >> }

PressPoints ==
  { << RInt((KpWidgetPos(View, pose_data, i)[1][1]
               \div KpWidgetPos(View, pose_data, i)[1][2]) + d[1]),
       RInt((KpWidgetPos(View, pose_data, i)[2][1]
               \div KpWidgetPos(View, pose_data, i)[2][2]) + d[2]) >> :
      i \in 1..2, d \in PressOffsets }

\* Canvas.mousePressEvent, left button without Ctrl, under the view
ViewMousePressEvent ==
  /\ events_left > 0
  /\ ~ button_down
  /\ \E pos \in PressPoints :
        LET hit == get_keypoint_at_view(View, pose_data, pos)
        IN  /\ selected_keypoint' = hit
            /\ dragging' = IF hit # 0 THEN TRUE ELSE dragging
            /\ drag_start_pos' =
                  IF hit # 0 THEN QPointF(pose_data.keypoints[hit].x,
                                          pose_data.keypoints[hit].y)
                  ELSE drag_start_pos
            /\ InstallView(View, "press", pos)
  /\ button_down' = TRUE
  /\ UNCHANGED << project_root, origin_dir, json_dir, image_files,
                  current_index, current_image_path, current_annotation_path,
                  score_ui, image, pose_data, pose_id,
                  undo_stack, redo_stack,
                  disk_image, disk_json, decodable, meta, dialog, last,
                  written_for, pre_edit, edited, lost_edit, phase,
                  clicks, faults, sd, widget_size, image_size, now,
                  inpaint_dir, origin_exists >>

NextView ==
  \/ ViewLoad
  \/ ViewMousePressEvent
  \/ MouseReleaseEvent
  \/ FitToWindow
  \/ FocusOnPose
  \/ WheelEvent
  \/ ResizeEvent

SpecView == InitView /\ [][NextView]_vars

(***************************************************************************)
(* meta.json: the project is opened, worked on and opened again, starting  *)
(* from a meta.json that is absent, unreadable, or left by earlier         *)
(* sessions with up to HistoryCap opens.                                   *)
(***************************************************************************)
\* the open history left by h opens at the times 1..h
OpenHistory(h) == [i \in 1..h |-> [time |-> i, user |-> Username]]

\* the image names last_image may hold: none, an image of the folder, or
\* an image that was removed from it since
LastImages == 0..(NumImages + 1)

MetaFiles ==
  { EmptyMeta, [EmptyMeta EXCEPT !.garbage = TRUE] }
    \cup { [EmptyMeta EXCEPT !.open_history = OpenHistory(h),
                             !.last_opened = h,
                             !.last_opened_by = Username,
                             !.total_images = NumImages,
                             !.last_image = li] :
             h \in {1, HistoryCap - 1, HistoryCap}, li \in LastImages }

\* project directories that were not fully migrated: old |-> the
\* annotation files found next to the images 1, 2 and 3
OldLayouts ==
  LET Scored  == JsonArray(<< to_dict(PoseScored) >>)
      Partial == JsonArray(<< to_dict(PosePartial) >>)
  IN  { [json |-> << Absent, Absent, Scored >>,
         old |-> << Scored, Absent, Partial >>, bad |-> 0],
        [json |-> << Absent, Scored, Absent >>,
         old |-> << Partial, Scored, Absent >>, bad |-> 2] }

OldLayoutJson(l) ==
  [p \in JsonPaths |->
     IF p.stem > Len(l.json) THEN Absent
     ELSE IF p.dir = DIR_JSON THEN l.json[p.stem]
     ELSE IF p.dir = DIR_ORIGIN THEN l.old[p.stem]
     ELSE Absent]

\* last_image was written by a save, so it names an image that decoded
InitMeta ==
  /\ Constructed
  /\ disk_image = [i \in 1..NumImages |-> "origin"]
  /\ origin_exists = TRUE
  /\ \/ \E l \in Layouts : /\ decodable = LayoutDecodable(l)
                            /\ disk_json = LayoutJson(l)
     \/ \E l \in OldLayouts : /\ decodable = LayoutDecodable(l)
                               /\ disk_json = OldLayoutJson(l)
  /\ meta \in MetaFiles
  /\ meta.last_image \in 1..NumImages => decodable[meta.last_image]
  /\ now = HistoryCap + 1
  /\ events_left = MaxMetaEvents
  /\ sd = NoSerde

NextMeta ==
  \/ OpenFolder
  \/ SaveCurrent
  \/ NextImage
  \/ PrevImage
  \/ MoveToIgnoreCategory

SpecMeta == InitMeta /\ [][NextMeta]_vars

(***************************************************************************)
(* Loading folders with any number of undecodable images: SpecLoad.        *)
(***************************************************************************)
\* annotation files that are not what the editor writes: text that is not
\* JSON; a COCO object whose second [x, y] entry is cut to [x]; a legacy
\* object whose second entry lacks "y"; an object whose keypoints are
\* numbers instead of entries.  Each carries scores and a skip reason.
GarbledObject(kps) ==
  [id |-> 3, keypoints |-> kps, novelty |-> 3, environment_interaction |-> 2,
   person_fit |-> 4, skip_reason |-> "blur"]

GarbledTruncated ==
  JsonArray(<< GarbledObject(<< JList(<< 10, 5 >>), JList(<< 20 >>) >>) >>)

GarbledLegacy ==
  JsonArray(<< GarbledObject(
     << JDict([name |-> "nose", x |-> 10, y |-> 5, visibility |-> 1]),
        JDict([name |-> "left_eye", x |-> 20, visibility |-> 1]) >>) >>)

GarbledShape ==
  JsonArray(<< GarbledObject(<< JNumber(10), JNumber(5), JNumber(20) >>) >>)

GarbledFiles == { Garbage, GarbledTruncated, GarbledLegacy, GarbledShape }

GarbledLayouts ==
  { [json |-> << g, JsonArray(<< to_dict(PoseScored) >>), g >>, bad |-> 0] :
      g \in GarbledFiles }

InitLoad ==
  /\ Constructed
  /\ disk_image = [i \in 1..NumImages |-> "origin"]
  /\ origin_exists = TRUE
  /\ decodable \in [1..NumImages -> BOOLEAN]
  /\ \E l \in {k \in Layouts : k.bad \in {0, 1}} \cup GarbledLayouts :
        disk_json = LayoutJson(l)
  /\ meta = EmptyMeta
  /\ now = 1
  /\ events_left = MaxLoadEvents
  /\ sd = NoSerde

NextLoad ==
  \/ OpenFolder
  \/ NextImage
  \/ PrevImage
  \/ MoveToIgnoreCategory

SpecLoad == InitLoad /\ [][NextLoad]_vars

(***************************************************************************)
(* Pointer gestures across image switches: SpecDrag.                       *)
(***************************************************************************)
InitDrag ==
  /\ Constructed
  /\ disk_image = [i \in 1..NumImages |-> "origin"]
  /\ origin_exists = TRUE
  /\ decodable = [i \in 1..NumImages |-> TRUE]
  /\ \E l \in Layouts : /\ l.bad = 0
                         /\ disk_json = LayoutJson(l)
  /\ meta = EmptyMeta
  /\ now = 1
  /\ events_left = MaxDragEvents
  /\ sd = NoSerde

NextDrag ==
  \/ OpenFolder
  \/ NextImage
  \/ PrevImage
  \/ MousePressEvent
  \/ MouseMoveEvent
  \/ MouseReleaseEvent

SpecDrag == InitDrag /\ [][NextDrag]_vars

(***************************************************************************)
(* Opening roots of every layout: with the images/ subdirectory, flat      *)
(* (images and their annotation files in the root itself) and bare (no     *)
(* images at all): SpecOpen.                                               *)
(***************************************************************************)
FlatLayoutJson(l) ==
  [p \in JsonPaths |->
     IF p.dir = ROOT_DIR /\ p.stem <= Len(l.json) THEN l.json[p.stem]
     ELSE Absent]

InitOpen ==
  /\ Constructed
  /\ \/ /\ origin_exists = TRUE
        /\ disk_image = [i \in 1..NumImages |-> "origin"]
        /\ \E l \in Layouts : /\ decodable = LayoutDecodable(l)
                               /\ disk_json = LayoutJson(l)
     \/ /\ origin_exists = FALSE
        /\ disk_image = [i \in 1..NumImages |-> "origin"]
        /\ \E l \in Layouts : /\ decodable = LayoutDecodable(l)
                               /\ disk_json = FlatLayoutJson(l)
     \/ /\ origin_exists = FALSE
        /\ disk_image = [i \in 1..NumImages |-> "none"]
        /\ decodable = [i \in 1..NumImages |-> TRUE]
        /\ disk_json = [p \in JsonPaths |-> Absent]
  /\ meta = EmptyMeta
  /\ now = 1
  /\ events_left = MaxOpenEvents
  /\ sd = NoSerde

NextOpen ==
  \/ OpenFolder
  \/ OpenFolderWithoutOrigin
  \/ NextImage
  \/ PrevImage
  \/ SaveCurrent
  \/ MoveToIgnoreCategory

SpecOpen == InitOpen /\ [][NextOpen]_vars

(***************************************************************************)
(* Properties.                                                             *)
(***************************************************************************)
Scores(p) == << p.novelty, p.environment_interaction, p.person_fit >>

\* C9: serialization round trip.  from_dict(to_dict(record)) does not raise
\* and has the x, y and visibility of all 17 keypoints and the novelty,
\* environment_interaction and person_fit of the record.
C9_RoundTrip ==
  (sd.stage = "parsed" /\ sd.src = "record") =>
     /\ sd.ok
     /\ Len(sd.out.keypoints) = Len(KEYPOINT_NAMES)
     /\ KpState(sd.out) = KpState(sd.pose)
     /\ Scores(sd.out) = Scores(sd.pose)

\* a record with a visible, moved keypoint, detector scores and user scores
\* has been serialized and parsed back
C9_Witness ==
  /\ sd.stage = "parsed" /\ sd.src = "record"
  /\ sd.pose.keypoints[1].x = 120 /\ sd.pose.keypoints[1].visibility = 1
  /\ sd.pose.keypoints[17].y = 44
  /\ sd.pose.raw_scores # << >>
  /\ sd.pose.novelty = 5 /\ sd.pose.person_fit = 4
  /\ sd.doc.keypoints[1] = JList(<< 120, 80 >>)

\* C10: legacy compatibility.  Parsing a legacy annotation (a list of
\* {name, x, y, visibility} objects, visibility on the scale 0/1/2) yields
\* 17 keypoints that carry the schema name of their index and the
\* coordinates of the file, each with visibility 0 or 1.
C10_LegacyCollapsed ==
  (sd.stage = "parsed" /\ sd.src = "legacy") =>
     /\ sd.ok
     /\ Len(sd.out.keypoints) = Len(KEYPOINT_NAMES)
     /\ \A i \in 1..Len(sd.out.keypoints) :
           /\ sd.out.keypoints[i].name = KEYPOINT_NAMES[i]
           /\ i <= Len(sd.doc.keypoints) =>
                 /\ sd.out.keypoints[i].x = sd.doc.keypoints[i].d.x
                 /\ sd.out.keypoints[i].y = sd.doc.keypoints[i].d.y
           /\ sd.out.keypoints[i].visibility \in {0, 1}

\* C1: undo/redo inverse law.  After committed edits made through the
\* canvas events from an empty history, undoing every command restores the
\* x, y and visibility of every keypoint to the pre-edit values, and with
\* nothing left to redo the keypoints have the fully edited values.
C1_UndoRedoInverse ==
  ~ lost_edit =>
     /\ (phase = "undo" /\ undo_stack = << >>) =>
           KpState(pose_data) = pre_edit
     /\ (phase = "redo" /\ redo_stack = << >>) =>
           KpState(pose_data) = edited

Range(seq) == {seq[i] : i \in 1..Len(seq)}

Triage == "move_to_ignore_category"

\* the reason a triage records: the typed reason, or else the category
ExpectedReason == IF last.custom # "" THEN last.custom ELSE last.category

\* annotation file f holds one record whose skip_reason is r
HoldsReason(f, r) ==
  /\ f.kind = "list"
  /\ Len(f.items) = 1
  /\ f.items[1].skip_reason = r

\* C2: validation gate.  Next from a non-last index is refused, with the
\* warning about missing scores, exactly when the live record has an empty
\* skip_reason and one of the three scores below 0; a refused Next leaves
\* the current index and the live record unchanged.
C2_ValidationGate ==
  [][(/\ last'.op = "next_image"
      /\ image_files # << >>
      /\ current_index < Len(image_files) - 1)
     => LET refused == "scores_incomplete" \in Range(dialog')
            unscored == \/ pose_data.novelty < 0
                        \/ pose_data.environment_interaction < 0
                        \/ pose_data.person_fit < 0
        IN  /\ refused <=> (pose_data.skip_reason = "" /\ unscored)
            /\ refused => /\ current_index' = current_index
                          /\ pose_data' = pose_data
                          /\ current_image_path' = current_image_path
            /\ ~ refused => last'.log # << >>]_vars

\* Next was refused for a record that lacks only environment_interaction
C2_Witness ==
  /\ last.op = "next_image"
  /\ dialog = << "scores_incomplete" >>
  /\ pose_data.novelty >= 0 /\ pose_data.person_fit >= 0
  /\ pose_data.environment_interaction < 0

\* C3: triage preserves the annotation.  After a successful triage the
\* annotation file at the resolved path exists and its skip_reason is the
\* typed reason, or the category when none was typed; the image is no longer
\* in the image directory but under ignore/<category>.
C3_TriagePreservesAnnotation ==
  (last.op = Triage /\ last.outcome = "ok") =>
     /\ HoldsReason(disk_json[last.path], ExpectedReason)
     /\ last.path.stem = last.img
     /\ disk_image[last.img] # "origin"
     /\ disk_image[last.img] = last.category

\* a triage with a typed reason succeeded on an image that had no annotation
\* file before
C3_Witness ==
  /\ last.op = Triage /\ last.outcome = "ok"
  /\ last.custom = "typed reason"
  /\ disk_json[last.path].items[1].novelty = -1
  /\ disk_image[last.img] = "other"

\* C4: triage is atomic on failure.  When the annotation write or the image
\* move of a triage fails, the live record, the file list, the current
\* index and the files on disk are as before the call.
C4_TriageAtomic ==
  [][(last'.op = Triage /\ last'.outcome \in {"write_failed", "move_failed"})
     => /\ pose_data' = pose_data
        /\ image_files' = image_files
        /\ current_index' = current_index
        /\ disk_image' = disk_image
        /\ disk_json' = disk_json]_vars

\* C5: triage writes first.  Every move of the image is preceded in the
\* handler by the successful write of the annotation; when the move fails
\* the annotation holds the reason and the image is still in place and in
\* the list; when the write fails no move is attempted and the image stays.
C5_TriageWriteFirst ==
  last.op = Triage =>
     /\ \A j \in 1..Len(last.log) :
           (last.log[j].op = "move" /\ last.log[j].stem = last.img) =>
              \E i \in 1..(j - 1) :
                 last.log[i] = Io("write", last.path.dir, last.path.stem, TRUE)
     /\ last.outcome = "move_failed" =>
           /\ HoldsReason(disk_json[last.path], ExpectedReason)
           /\ disk_image[last.img] = "origin"
           /\ last.img \in Range(image_files)
     /\ last.outcome = "write_failed" =>
           /\ \A j \in 1..Len(last.log) : last.log[j].op # "move"
           /\ disk_image[last.img] = "origin"
           /\ last.img \in Range(image_files)

\* the move of a triage failed after its write
C5_Witness ==
  /\ last.op = Triage /\ last.outcome = "move_failed"
  /\ Len(last.log) = 2
  /\ last.log[2] = Io("move", last.category, last.img, FALSE)

\* C6: a failed save never loses edits.  When the save made by Next, Prev
\* or NextNeedingWork fails, the current index and the live record are as
\* before the call.
C6_FailedSaveRefuses ==
  [][(/\ last'.op \in {"next_image", "prev_image", "next_processable_image"}
      /\ "save_failed" \in Range(dialog'))
     => /\ current_index' = current_index
        /\ pose_data' = pose_data]_vars

\* C7: corrupt files are never presented.  The current image is a file that
\* decoded, or there is none.
C7_NoCorruptCurrent ==
  current_image_path = 0 \/ decodable[current_image_path]

\* C8: a record is never shared across two images.  An annotation file of
\* image X was last written from the record loaded or created for X (0: the
\* record of no image), and the record of an image that loaded never has
\* the skip reason of the corrupt triage.
C8_RecordNotShared ==
  /\ \A p \in JsonPaths : written_for[p] \in {-1, 0, p.stem}
  /\ current_annotation_path # NoPath => pose_data.skip_reason # CorruptReason

\* C11: no-op suppression.  A press (selection or Ctrl+click), a pointer
\* move or a visibility key that leaves x, y and visibility of every
\* keypoint as they were, and a release of a drag whose keypoint is at the
\* position the drag started from, leave the undo stack and the redo stack
\* unchanged.
C11_NoOpSuppression ==
  [][(\/ /\ last'.op \in {"mouse_press", "mouse_move", "key_press"}
         /\ KpState(pose_data') = KpState(pose_data)
      \/ /\ last'.op = "mouse_release"
         /\ (dragging /\ selected_keypoint # 0) =>
               /\ pose_data.keypoints[selected_keypoint].x = drag_start_pos.x
               /\ pose_data.keypoints[selected_keypoint].y = drag_start_pos.y)
     => /\ undo_stack' = undo_stack
        /\ redo_stack' = redo_stack]_vars

\* a visibility key that changed nothing arrived while a command could be
\* redone, and the command still can
C11_Witness ==
  /\ last.op = "key_press"
  /\ selected_keypoint # 0
  /\ redo_stack # << >>

\* the handlers that load an image
Loaders ==
  {"open_folder", "next_image", "prev_image", "next_processable_image",
   "move_to_ignore_category"}

\* the positions of the decode attempts in a handler's log
Decodes(log) == {i \in 1..Len(log) : log[i].op = "decode"}

\* the last handler was a loader whose last decode attempt succeeded
LoadedOk ==
  /\ last.op \in Loaders
  /\ Decodes(last.log) # {}
  /\ LET n == CHOOSE i \in Decodes(last.log) :
                 \A j \in Decodes(last.log) : j <= i
     IN  last.log[n].ok

C13_NextOrdering ==
  [][last'.op = "next_image" =>
       LET refused == "scores_incomplete" \in Range(dialog')
           atLast == \/ image_files = << >>
                     \/ current_index >= Len(image_files) - 1
       IN  /\ atLast => /\ current_index' = current_index
                        /\ pose_data' = pose_data
           /\ (~ atLast /\ refused) => /\ last'.log = << >>
                                       /\ disk_json' = disk_json
                                       /\ meta' = meta
           /\ (~ atLast /\ ~ refused) =>
                 /\ last'.log # << >>
                 /\ last'.log[1] = Io("write", current_annotation_path.dir,
                                      current_annotation_path.stem, TRUE)
                 /\ disk_json'[current_annotation_path] =
                       JsonArray(<< to_dict(pose_data) >>)
                 /\ current_index' = current_index + 1]_vars

\* C14: Prev is never blocked by validation.  At an index above 0 Prev
\* shows no validation warning whatever the scores are, first writes the
\* live record to its annotation path and ends at the old index - 1; at
\* index 0 it changes nothing.
C14_PrevNeverBlocked ==
  [][last'.op = "prev_image" =>
       LET atFirst == image_files = << >> \/ current_index = 0
       IN  /\ atFirst => /\ current_index' = current_index
                         /\ pose_data' = pose_data
                         /\ disk_json' = disk_json
                         /\ last'.log = << >>
           /\ ~ atFirst =>
                 /\ "scores_incomplete" \notin Range(dialog')
                 /\ last'.log # << >>
                 /\ last'.log[1] = Io("write", current_annotation_path.dir,
                                      current_annotation_path.stem, TRUE)
                 /\ disk_json'[current_annotation_path] =
                       JsonArray(<< to_dict(pose_data) >>)
                 /\ current_index' = current_index - 1]_vars

\* the record load_annotation builds for image img from the files dj
RecordOnDisk(dj, img) ==
  LET dirs == [json_dir |-> DIR_JSON, origin_dir |-> DIR_ORIGIN,
               disk_json |-> dj]
  IN  ParseAnnotation(dj[get_annotation_path(dirs, img)])

\* a record that still needs work: no skip reason and a score missing
NeedsWork(pose) ==
  /\ pose.skip_reason = ""
  /\ \/ pose.novelty < 0
     \/ pose.environment_interaction < 0
     \/ pose.person_fit < 0

Min(S) == CHOOSE x \in S : \A y \in S : x <= y

RemoveAt(seq, i) == SubSeq(seq, 1, i) \o SubSeq(seq, i + 2, Len(seq))

\* seq without the entries in S
Without(seq, S) == SelectSeq(seq, LAMBDA x : x \notin S)

\* C16 as stated: after a successful triage at index i of a list L of
\* length n the list is L without L[i]; for n = 1 the workspace is empty
\* (no image, default record, no selection, no current paths); otherwise the
\* index is min(i, n-2) and the loaded image is L[i+1], or L[i-1] when
\* i = n-1.
C16_TriageListUpdate ==
  [][(last'.op = Triage /\ last'.outcome = "ok")
     => LET L == image_files
            i == current_index
            n == Len(L)
        IN  /\ image_files' = RemoveAt(L, i)
            /\ IF n = 1
               THEN /\ image' = 0
                    /\ pose_data' = NewPoseData
                    /\ selected_keypoint' = 0
                    /\ current_image_path' = 0
                    /\ current_annotation_path' = NoPath
               ELSE /\ current_index' = Min({i, n - 2})
                    /\ current_image_path' =
                          IF i < n - 1 THEN L[i + 2] ELSE L[i]
                    /\ image' = current_image_path']_vars

\* C16, amended: the list after a successful triage is L without L[i] and
\* without the undecodable images that the load following the triage moved
\* to the corrupt folder; when that list is empty the workspace is empty;
\* otherwise the index is min(i, length - 1), the current image is the
\* entry at that index and, when it decodes, it is shown with its record.
C16_TriageListUpdateAmended ==
  [][(last'.op = Triage /\ last'.outcome = "ok")
     => LET L == image_files
            i == current_index
            gone == {x \in 1..NumImages :
                       /\ disk_image[x] = "origin"
                       /\ disk_image'[x] = CorruptReason}
            E == Without(RemoveAt(L, i), gone)
        IN  /\ image_files' = E
            /\ \A x \in gone : ~ decodable[x]
            /\ IF E = << >>
               THEN /\ image' = 0
                    /\ pose_data' = NewPoseData
                    /\ selected_keypoint' = 0
                    /\ current_image_path' = 0
                    /\ current_annotation_path' = NoPath
               ELSE /\ current_index' = Min({i, Len(E) - 1})
                    /\ current_image_path' = E[current_index' + 1]
                    /\ decodable[current_image_path'] =>
                          /\ image' = current_image_path'
                          /\ pose_data' =
                                RecordOnDisk(disk_json', current_image_path')]_vars

\* a triage succeeded and the load that followed it removed an undecodable
\* image as well, leaving an image loaded
C16_Witness ==
  /\ last.op = Triage /\ last.outcome = "ok"
  /\ \E k \in 1..Len(last.log) :
        /\ last.log[k].op = "move"
        /\ last.log[k].dir = CorruptReason
        /\ last.log[k].ok
  /\ image_files # << >>
  /\ image = current_image_path

\* C17: keypoint schema invariant.  Whatever supported format is parsed
\* (COCO array, legacy dict list, with fewer or more than 17 entries), the
\* record has exactly 17 keypoints, the keypoint at index i carries the i-th
\* schema name, and the entries missing from the file keep x = 0, y = 0.
C17_KeypointSchema ==
  (sd.stage = "parsed" /\ sd.ok) =>
     /\ Len(sd.out.keypoints) = Len(KEYPOINT_NAMES)
     /\ \A i \in 1..Len(sd.out.keypoints) :
           /\ sd.out.keypoints[i].name = KEYPOINT_NAMES[i]
           /\ i > Len(sd.doc.keypoints) =>
                 /\ sd.out.keypoints[i].x = 0
                 /\ sd.out.keypoints[i].y = 0

\* the same for the files written in the COCO format only
C17_CocoSchema ==
  (sd.stage = "parsed" /\ sd.src # "legacy") => C17_KeypointSchema

\* C18: visibility invariant.  After parsing any annotation every
\* keypoint's visibility is 0 (occluded) or 1 (visible).
C18_VisibilityBinary ==
  (sd.stage = "parsed" /\ sd.ok) =>
     \A i \in 1..Len(sd.out.keypoints) :
        sd.out.keypoints[i].visibility \in {0, 1}

\* the part of C18 about editing: from a record whose visibilities are 0 or
\* 1, the canvas events, undo and redo keep them so
C18_EditKeepsBinary ==
  \A i \in 1..Len(pose_data.keypoints) :
     pose_data.keypoints[i].visibility \in {0, 1}

ScoreRange == {-1} \cup (0..5)

\* C19: score range invariant.  After parsing any annotation each of
\* novelty, environment_interaction and person_fit is -1 or an integer in
\* 0..5.
C19_ScoreRange ==
  (sd.stage = "parsed" /\ sd.ok) =>
     \A k \in 1..3 : Scores(sd.out)[k] \in ScoreRange

\* the part of C19 about the score buttons: from annotation files with
\* scores in range, the live record's scores stay in range under clicks
C19_ClicksKeepRange ==
  \A k \in 1..3 : Scores(pose_data)[k] \in ScoreRange

\* C20: detector provenance is round-tripped.  For every record, also one
\* with empty raw_scores and one loaded from a file, from_dict(to_dict(r))
\* has the raw_id and the raw_scores of r.
C20_ProvenanceRoundTrip ==
  (sd.stage = "parsed" /\ sd.src \in {"record", "loaded"}) =>
     /\ sd.ok
     /\ sd.out.raw_id = sd.pose.raw_id
     /\ sd.out.raw_scores = sd.pose.raw_scores

\* the part of C20 about editing: keypoint edits, undo, redo and score
\* clicks leave raw_id and raw_scores of the live record alone
C20_ProvenanceReadOnly ==
  [][last'.op \in {"mouse_press", "mouse_move", "mouse_release", "key_press",
                   "undo", "redo", "score_click"}
     => /\ pose_data'.raw_id = pose_data.raw_id
        /\ pose_data'.raw_scores = pose_data.raw_scores]_vars

\* the part of C20 about triage: the annotation written by a triage carries
\* the raw_id of the record and its raw_scores when there are any
C20_TriageKeepsProvenance ==
  [][(last'.op = Triage /\ last'.outcome = "ok"
      /\ current_annotation_path # NoPath)
     => LET doc == disk_json'[current_annotation_path].items[1]
        IN  /\ doc.id = pose_data.raw_id
            /\ pose_data.raw_scores # << >> =>
                  doc.scores = pose_data.raw_scores]_vars

\* C21: drag from the origin.  On a default record (all keypoints at (0,0),
\* occluded) keypoint 0 is pressed at (0,0) and moved to (120,80); the
\* release pushes exactly one command, whose before-state is (0,0) (what a
\* following undo restores) and whose after-state is (120,80) (what a
\* following redo restores).
C21_DragFromOrigin ==
  [][(/\ last'.op = "mouse_release"
      /\ dragging /\ selected_keypoint = 1
      /\ drag_start_pos = QPointF(0, 0)
      /\ pose_data.keypoints =
            [InitKeypoints EXCEPT ![1] = Keypoint("nose", 120, 80, 0)])
     => /\ Len(undo_stack') = Len(undo_stack) + 1
        /\ LET cmd == undo_stack'[Len(undo_stack')]
           IN  /\ cmd.keypoint_index = 1
               /\ cmd.old_state.x = 0 /\ cmd.old_state.y = 0
               /\ cmd.new_state.x = 120 /\ cmd.new_state.y = 80]_vars

\* C22: zoom anchoring.  After a wheel tick at a view point (factor 1.1 or
\* 0.9) the image point under that view point is the one that was under it
\* before the tick.
C22_ZoomAnchoring ==
  [][view_last'.op = "wheel"
     => widget_to_image(scale', offset', view_last'.pos)
          = widget_to_image(scale, offset, view_last'.pos)]_vars

\* a wheel tick away from the origin has changed the scale of a view whose
\* offset is not zero
C22_Witness ==
  /\ view_last.op = "wheel"
  /\ view_last.pos = << RInt(123), RInt(457) >>
  /\ view_last.zoomed
  /\ offset[1] # RInt(0)

\* C23: scale bound.  In every reachable state 0.1 <= scale <= 20.
C23_ScaleBound == RLe(MinScale, scale) /\ RLe(scale, MaxScale)

\* the wheel alone keeps the scale within the bounds
C23_WheelKeepsBound ==
  [][(view_last'.op = "wheel" /\ C23_ScaleBound) => C23_ScaleBound']_vars

\* a photograph of 8000 x 8000 pixels is shown within the bounds
C23_LargeImage == image_size = << 8000, 8000 >> => C23_ScaleBound

Saves == {"save_current", "next_image", "prev_image", "next_processable_image"}

\* C25: resume position.  A save whose write succeeds records the image
\* that is current as last_image in meta.json; an open whose meta.json
\* names an image that is still in the image folder makes that image
\* current, and otherwise loads index 0.
C25_ResumePosition ==
  [][/\ (/\ last'.op \in Saves
         /\ last'.log # << >>
         /\ last'.log[1].op = "write" /\ last'.log[1].ok)
        => /\ ~ meta'.garbage
           /\ meta'.last_image = current_image_path
     /\ last'.op = "open_folder"
        => LET li == IF meta.garbage THEN 0 ELSE meta.last_image
               scanned == {x \in 1..NumImages : disk_image[x] = "origin"}
           IN  IF li \in scanned
               THEN /\ current_image_path' = li
                    /\ image' = li
               ELSE scanned # {} => current_index' = 0]_vars

\* the annotation path of image img in a project whose files are dj
Resolved(dj, img) ==
  LET new == [dir |-> DIR_JSON, stem |-> img]
      old == [dir |-> DIR_ORIGIN, stem |-> img]
  IN  IF dj[new].kind # "absent" THEN new
      ELSE IF dj[old].kind # "absent" THEN old
      ELSE new

\* C26: annotation path resolution.  The path of a loaded image is
\* annotations/<stem>.json when that file exists, else images/<stem>.json
\* when that file exists, else annotations/<stem>.json; the writes of save
\* and of triage for a loaded image go to the path resolved at its load.
C26_AnnotationPath ==
  [][/\ LoadedOk' =>
          current_annotation_path' = Resolved(disk_json', current_image_path')
     /\ (/\ last'.op \in Saves \cup {Triage}
         /\ image # 0 /\ image = current_image_path
         /\ last'.log # << >>
         /\ last'.log[1].op = "write")
        => /\ current_annotation_path.stem = current_image_path
           /\ last'.log[1].dir = current_annotation_path.dir
           /\ last'.log[1].stem = current_annotation_path.stem]_vars

\* an image whose annotation is found next to it was loaded and saved there
C26_Witness ==
  /\ last.op = "save_current"
  /\ current_annotation_path = [dir |-> DIR_ORIGIN, stem |-> 1]
  /\ written_for[current_annotation_path] = 1
  /\ disk_json[[dir |-> DIR_JSON, stem |-> 1]].kind = "absent"

\* the distance in the view between keypoint i and the last pointer position
ViewDistance(i) == RManhattan(KpWidgetPos(View, pose_data, i), view_last.pos)

\* C27: hit test.  The keypoint a press selects is within Manhattan distance
\* 10 of the pointer in the view and no keypoint of lower index is; a
\* press selects nothing exactly when no image is loaded or no keypoint is
\* within that distance.  Visibility and the distances of later keypoints
\* play no part.
C27_HitTest ==
  view_last.op = "press" =>
     IF selected_keypoint # 0
     THEN /\ image # 0
          /\ RLt(ViewDistance(selected_keypoint), RInt(HitRadius))
          /\ \A j \in 1..(selected_keypoint - 1) :
                ~ RLt(ViewDistance(j), RInt(HitRadius))
     ELSE \/ image = 0
          \/ \A j \in 1..Len(pose_data.keypoints) :
                ~ RLt(ViewDistance(j), RInt(HitRadius))

\* a press selected keypoint 0 although keypoint 1 is nearer to the pointer,
\* in a view that is not at scale 1
C27_Witness ==
  /\ view_last.op = "press"
  /\ selected_keypoint = 1
  /\ scale # RInt(1)
  /\ RLt(ViewDistance(2), ViewDistance(1))

\* a press selected an occluded keypoint
C27_WitnessOccluded ==
  /\ view_last.op = "press"
  /\ selected_keypoint # 0
  /\ pose_data.keypoints[selected_keypoint].visibility = 0

\* the images the corrupt routing of the last handler moved away
Routed(log) ==
  {log[i].stem : i \in {j \in 1..Len(log) :
                          /\ log[j].op = "move"
                          /\ log[j].dir = CorruptReason
                          /\ log[j].ok}}

\* the length of the image list when the handler named op calls
\* load_current_image
StartLen(op) ==
  CASE op = "open_folder" ->
         Cardinality({x \in 1..NumImages : disk_image[x] = "origin"})
    [] op = Triage -> Len(image_files) - 1
    [] OTHER -> Len(image_files)

\* the handlers that call load_current_image once
LoadsOnce == {"open_folder", "next_image", "prev_image", Triage}

\* no handler decodes more often than its image list is long, and the
\* list loses exactly the images whose corrupt routing succeeded
C28_BoundAndRemoval ==
  [][(last'.op \in LoadsOnce /\ Decodes(last'.log) # {})
       => /\ Cardinality(Decodes(last'.log)) <= StartLen(last'.op)
          /\ Len(image_files') =
                StartLen(last'.op) - Cardinality(Routed(last'.log))
          /\ \A i \in 1..Len(image_files') :
                image_files'[i] \notin Routed(last'.log)]_vars

\* C28: load terminates.  A handler that loads decodes at most as many
\* files as its image list holds, every successfully routed decode failure
\* removes exactly that file from the list, and the handler ends with a
\* decodable current image on the canvas or with the empty workspace.
C28_LoadTerminates ==
  [][(last'.op \in LoadsOnce /\ Decodes(last'.log) # {})
       => /\ Cardinality(Decodes(last'.log)) <= StartLen(last'.op)
          /\ Len(image_files') =
                StartLen(last'.op) - Cardinality(Routed(last'.log))
          /\ \A i \in 1..Len(image_files') :
                image_files'[i] \notin Routed(last'.log)
          /\ \/ /\ current_image_path' # 0
                 /\ decodable[current_image_path']
                 /\ image' = current_image_path'
             \/ /\ image_files' = << >>
                 /\ current_image_path' = 0
                 /\ image' = 0]_vars

\* a load that skipped two undecodable files in one handler
C28_TwoRouted ==
  /\ Cardinality(Routed(last.log)) = 2
  /\ Cardinality(Decodes(last.log)) = 3

\* the handlers that can push a command
Pushers == {"mouse_press", "mouse_release", "key_press"}

\* C29: push.  A push puts the command on top of the undo stack, keeps the
\* earlier entries in their order and leaves the redo stack empty; an
\* empty redo stack stays empty until an undo, and a redo on it fails and
\* changes nothing.
C29_Push ==
  [][/\ (last'.op \in Pushers /\ undo_stack' # undo_stack)
          => /\ Len(undo_stack') = Len(undo_stack) + 1
             /\ SubSeq(undo_stack', 1, Len(undo_stack)) = undo_stack
             /\ redo_stack' = << >>
     /\ (last'.op = "key_press"
           /\ pose_data'.keypoints # pose_data.keypoints)
          => /\ Len(undo_stack') = Len(undo_stack) + 1
             /\ redo_stack' = << >>
     /\ (redo_stack = << >> /\ last'.op # "undo")
          => redo_stack' = << >>
     /\ (last'.op = "redo" /\ redo_stack = << >>)
          => /\ last'.outcome = "False"
             /\ UNCHANGED << undo_stack, redo_stack, pose_data >>]_vars

\* open, an edit, its undo, and a key press that pushed onto the undo stack
\* while the redo stack held the undone command
C29_Witness ==
  /\ events_left = MaxEvents - 4
  /\ last.op = "key_press"
  /\ phase = "off"
  /\ edited # pre_edit
  /\ undo_stack # << >>
  /\ redo_stack = << >>

\* a push kept an earlier entry below the new top
C29_WitnessOrder ==
  /\ last.op \in Pushers
  /\ Len(undo_stack) = 2
  /\ undo_stack[1] # undo_stack[2]

\* the keypoint a command is about has the x, y and visibility of state
Applied(p, cmd, state) ==
  LET kp == p.keypoints[cmd.keypoint_index]
  IN  /\ kp.x = state.x
      /\ kp.y = state.y
      /\ kp.visibility = state.visibility

\* C30: undo and redo.  undo on an empty undo stack returns False and
\* changes nothing; otherwise it takes the top command off the undo stack,
\* applies its before-state, puts it on top of the redo stack and returns
\* True.  redo does the same from the redo stack to the undo stack with the
\* after-state.  Neither changes the number of commands held by the two
\* stacks together.
C30_UndoRedo ==
  [][/\ last'.op = "undo" =>
          IF undo_stack = << >>
          THEN /\ last'.outcome = "False"
               /\ UNCHANGED << undo_stack, redo_stack, pose_data >>
          ELSE LET cmd == undo_stack[Len(undo_stack)]
               IN  /\ last'.outcome = "True"
                   /\ undo_stack' = SubSeq(undo_stack, 1, Len(undo_stack) - 1)
                   /\ redo_stack' = Append(redo_stack, cmd)
                   /\ Applied(pose_data', cmd, cmd.old_state)
     /\ last'.op = "redo" =>
          IF redo_stack = << >>
          THEN /\ last'.outcome = "False"
               /\ UNCHANGED << undo_stack, redo_stack, pose_data >>
          ELSE LET cmd == redo_stack[Len(redo_stack)]
               IN  /\ last'.outcome = "True"
                   /\ redo_stack' = SubSeq(redo_stack, 1, Len(redo_stack) - 1)
                   /\ undo_stack' = Append(undo_stack, cmd)
                   /\ Applied(pose_data', cmd, cmd.new_state)
     /\ last'.op \in {"undo", "redo"} =>
          Len(undo_stack') + Len(redo_stack')
            = Len(undo_stack) + Len(redo_stack)]_vars

\* an undo that succeeded with a command left below the one it moved
C30_Witness ==
  /\ last.op = "undo"
  /\ last.outcome = "True"
  /\ Len(undo_stack) = 1
  /\ Len(redo_stack) = 1
  /\ Applied(pose_data, redo_stack[1], redo_stack[1].old_state)
  /\ ~ Applied(pose_data, redo_stack[1], redo_stack[1].new_state)

\* a redo that succeeded and left a command on the redo stack
C30_WitnessRedo ==
  /\ last.op = "redo"
  /\ last.outcome = "True"
  /\ Len(undo_stack) = 1
  /\ Len(redo_stack) = 1

\* an undo and a redo that failed with commands on the other stack
C30_WitnessFails ==
  \/ last.op = "undo" /\ last.outcome = "False" /\ redo_stack # << >>
  \/ last.op = "redo" /\ last.outcome = "False" /\ undo_stack # << >>

\* the keypoint index of the command an undo or redo step applies, 0 when
\* the stack it takes from is empty
AppliedIndex(op) ==
  IF op = "undo"
  THEN IF undo_stack = << >> THEN 0
       ELSE undo_stack[Len(undo_stack)].keypoint_index
  ELSE IF redo_stack = << >> THEN 0
       ELSE redo_stack[Len(redo_stack)].keypoint_index

\* C31: frame of undo and redo.  An undo or redo changes at most the x, y
\* and visibility of the keypoint its command names; every other keypoint,
\* every keypoint name, the scores, skip_reason, raw_id, raw_scores, the
\* selection and the current index stay as they were.
C31_UndoRedoFrame ==
  [][last'.op \in {"undo", "redo"}
       => /\ \A i \in 1..Len(pose_data.keypoints) :
               /\ pose_data'.keypoints[i].name = pose_data.keypoints[i].name
               /\ i # AppliedIndex(last'.op)
                    => pose_data'.keypoints[i] = pose_data.keypoints[i]
          /\ Len(pose_data'.keypoints) = Len(pose_data.keypoints)
          /\ [pose_data' EXCEPT !.keypoints = pose_data.keypoints] = pose_data
          /\ selected_keypoint' = selected_keypoint
          /\ current_index' = current_index]_vars

\* an undo changed a keypoint of a scored record while another keypoint
\* was selected
C31_Witness ==
  /\ last.op = "undo"
  /\ last.outcome = "True"
  /\ selected_keypoint # 0
  /\ redo_stack[Len(redo_stack)].keypoint_index # selected_keypoint
  /\ ~ Applied(pose_data, redo_stack[Len(redo_stack)],
               redo_stack[Len(redo_stack)].new_state)
  /\ pose_data.novelty = 3
  /\ pose_data.raw_id = 7

\* C32: annotation parse failure is not fatal.  A load whose annotation
\* file is garbled completes with a fresh default record as the live
\* record, empty undo and redo stacks and keypoint 0 selected.
C32_ParseFailure ==
  [][(/\ LoadedOk'
      /\ disk_json'[current_annotation_path'] \in GarbledFiles)
       => /\ image' = current_image_path'
          /\ pose_data' = NewPoseData
          /\ undo_stack' = << >>
          /\ redo_stack' = << >>
          /\ selected_keypoint' = 1]_vars

\* the same for the files whose parse raises
C32_RaisingFiles ==
  [][(/\ LoadedOk'
      /\ disk_json'[current_annotation_path'] \in
            GarbledFiles \ {GarbledShape})
       => /\ image' = current_image_path'
          /\ pose_data' = NewPoseData
          /\ undo_stack' = << >>
          /\ redo_stack' = << >>
          /\ selected_keypoint' = 1]_vars

\* a load of a file cut inside a keypoint entry
C32_TruncatedLoaded ==
  /\ LoadedOk
  /\ disk_json[current_annotation_path] = GarbledTruncated

\* the step is a wheel tick
WheelStep ==
  /\ view_last'.op = "wheel"
  /\ events_left' # events_left
  /\ button_down' = button_down

\* clamp(x) of the zoom range
Clamp(x) == IF RLt(x, MinScale) THEN MinScale
            ELSE IF RLt(MaxScale, x) THEN MaxScale ELSE x

\* C33: zoomAt clamps.  A wheel tick sets the scale to clamp(scale * 1.1)
\* or clamp(scale * 0.9), also when the product is outside [0.1, 20].
C33_ZoomClamps ==
  [][(WheelStep /\ image_size # << 0, 0 >>)
       => scale' \in {Clamp(RMul(scale, ZoomIn)),
                      Clamp(RMul(scale, ZoomOut))}]_vars

\* the same for ticks that start from a scale inside [0.1, 20]
C33_ZoomClampsInRange ==
  [][(/\ WheelStep
      /\ image_size # << 0, 0 >>
      /\ RLe(MinScale, scale) /\ RLe(scale, MaxScale))
       => scale' \in {Clamp(RMul(scale, ZoomIn)),
                      Clamp(RMul(scale, ZoomOut))}]_vars

\* a wheel tick whose product is outside [0.1, 20] leaves the scale and the
\* offset as they were
C33_RejectedTickIsIgnored ==
  [][(/\ WheelStep
      /\ scale' \notin {RMul(scale, ZoomIn), RMul(scale, ZoomOut)})
       => /\ scale' = scale
          /\ offset' = offset]_vars

\* the step opens a flat root and the migration is declined: the root has
\* no images/ subdirectory before or after, and holds images
LegacyOpen ==
  /\ last'.op = "open_folder"
  /\ events_left' # events_left
  /\ ~ origin_exists
  /\ ~ origin_exists'
  /\ \E i \in 1..NumImages : disk_image[i] = "origin"

\* C34: legacy flat mode.  Opening a root that has no images/ subdirectory
\* but holds images, with the migration declined, opens the project with
\* origin_dir, json_dir and inpaint_dir all equal to the root directory.
C34_LegacyFlatMode ==
  [][LegacyOpen => /\ project_root' = "root"
                   /\ origin_dir' = ROOT_DIR
                   /\ json_dir' = ROOT_DIR
                   /\ inpaint_dir' = ROOT_DIR]_vars

\* the image and annotation directories of a declined migration are the
\* root, annotation paths are resolved in it, and the images are listed
C34_OriginAndJsonAtRoot ==
  [][LegacyOpen => /\ project_root' = "root"
                   /\ origin_dir' = ROOT_DIR
                   /\ json_dir' = ROOT_DIR
                   /\ image_files' # << >>
                   /\ LoadedOk' => current_annotation_path'.dir = ROOT_DIR]_vars

\* an image of a flat project was loaded with the record found in the root
C34_FlatLoaded ==
  /\ ~ origin_exists
  /\ origin_dir = ROOT_DIR
  /\ LoadedOk
  /\ pose_data.novelty = 3

\* the commands held by the two stacks
HeldCommands ==
  {undo_stack[i] : i \in 1..Len(undo_stack)}
    \cup {redo_stack[i] : i \in 1..Len(redo_stack)}

\* C35: every command held by the undo or the redo stack targets the live
\* record.
C35_CommandsTargetLive ==
  \A cmd \in HeldCommands : cmd.pose_data = pose_id

\* an undo or redo that succeeds changes the live record
C35_UndoChangesLive ==
  [][(last'.op \in {"undo", "redo"} /\ last'.outcome = "True")
       => pose_data' # pose_data]_vars

\* after a corrupt routing that failed, the commands held target the live
\* record
C35_AfterFailedRouting ==
  (/\ dialog # << >>
   /\ dialog[Len(dialog)] = "move_corrupt_failed")
    => \A cmd \in HeldCommands : cmd.pose_data = pose_id

\* C36: an image switch ends a drag.  A handler that loads an image while a
\* drag is in progress leaves no drag in progress; a pointer move or
\* release that comes right after a load moves no keypoint of the new
\* record and pushes no command.
C36_SwitchEndsDrag ==
  [][/\ (LoadedOk' /\ events_left' # events_left /\ dragging)
          => ~ dragging'
     /\ (/\ LoadedOk
         /\ last'.op \in {"mouse_move", "mouse_release"})
          => /\ pose_data'.keypoints = pose_data.keypoints
             /\ undo_stack' = undo_stack]_vars

\* a pointer move right after a load moves no keypoint
C36_MoveAfterSwitch ==
  [][(LoadedOk /\ last'.op = "mouse_move")
       => pose_data'.keypoints = pose_data.keypoints]_vars

\* a release right after a load pushes no command
C36_ReleaseAfterSwitch ==
  [][(LoadedOk /\ last'.op = "mouse_release")
       => undo_stack' = undo_stack]_vars

\* a load without a drag in progress leaves none
C36_NoDragFromLoad ==
  [][(LoadedOk' /\ events_left' # events_left /\ ~ dragging)
       => ~ dragging']_vars

\* C37: the current image is consistent.  Whenever a current image is set,
\* current_index is an index of image_files, current_image_path is the
\* entry at that index, and the annotation path and the image on the
\* canvas are those of that image.
C37_CurrentConsistent ==
  current_image_path # 0
    => /\ current_index \in 0..(Len(image_files) - 1)
       /\ image_files[current_index + 1] = current_image_path
       /\ current_annotation_path.stem = current_image_path
       /\ image = current_image_path

\* the index part alone
C37_IndexOfCurrent ==
  current_image_path # 0
    => /\ current_index \in 0..(Len(image_files) - 1)
       /\ image_files[current_index + 1] = current_image_path

\* keypoints, visibility and scores of a record as to_dict writes them
Edits(p) ==
  [keypoints |-> to_dict(p).keypoints,
   visibility |-> to_dict(p).visibility,
   scores |-> Scores(p)]

\* the live record is the one loaded for the current image and differs in
\* keypoints or scores from what its annotation file gives on a reload
Unsaved ==
  /\ image # 0
  /\ image = current_image_path
  /\ current_annotation_path.stem = current_image_path
  /\ Edits(pose_data) # Edits(ParseAnnotation(disk_json[current_annotation_path]))

\* the step is a handler that replaced the live record
Replaced(ops) ==
  /\ last'.op \in ops
  /\ events_left' # events_left
  /\ LoadedOk' \/ image' = 0

\* after the step the annotation file of the record that was live before
\* it holds that record's keypoints and scores
SavedBeforeReplaced ==
  LET file == disk_json'[current_annotation_path]
  IN  /\ file.kind = "list"
      /\ Len(file.items) = 1
      /\ Edits(ParseAnnotation(file)) = Edits(pose_data)

\* C38: unsaved edits are never discarded silently.  A handler that
\* replaces a live record with unsaved keypoints or scores has written them
\* to the record's annotation path, or has reported that the save failed.
C38_EditsSaved ==
  [][(Unsaved /\ Replaced(Loaders))
       => \/ SavedBeforeReplaced
          \/ \E i \in 1..Len(dialog') : dialog'[i] = "save_failed"]_vars

\* the same for Next, Prev, NextNeedingWork and triage
C38_NavigationSaves ==
  [][(Unsaved /\ Replaced(Loaders \ {"open_folder"}))
       => \/ SavedBeforeReplaced
          \/ \E i \in 1..Len(dialog') : dialog'[i] = "save_failed"]_vars

\* a navigation replaced a record with unsaved edits
C38_NavigationWithEdits ==
  /\ last.op \in {"next_image", "prev_image"}
  /\ LoadedOk
  /\ \E p \in JsonPaths :
        /\ p.stem # current_image_path
        /\ written_for[p] = p.stem
        /\ disk_json[p].kind = "list"
        /\ disk_json[p].items[1].visibility[1] = 0
        /\ disk_json[p].items[1].keypoints[1] = JList(<< 120, 80 >>)

\* C39: NextNeedingWork is gated.  Invoked while the live record has no
\* skip reason and a score that is not set, next_processable_image reads
\* and writes no file, and leaves the current index, the current image,
\* the live record, the annotation files and meta.json as they were.
C39_NextNeedingWorkGated ==
  [][(/\ last'.op = "next_processable_image"
      /\ events_left' # events_left
      /\ pose_data.skip_reason = ""
      /\ \/ pose_data.novelty < 0
         \/ pose_data.environment_interaction < 0
         \/ pose_data.person_fit < 0)
       => /\ last'.log = << >>
          /\ UNCHANGED << current_index, current_image_path, image,
                          pose_data, image_files, disk_json, disk_image,
                          meta, undo_stack, redo_stack >>]_vars

\* the gate stopped a scan on a record with unsaved changes while later
\* images were left to scan
C39_Witness ==
  /\ last.op = "next_processable_image"
  /\ dialog = << "scores_incomplete" >>
  /\ last.log = << >>
  /\ image # 0
  /\ pose_data.skip_reason = ""
  /\ pose_data.person_fit < 0
  /\ current_index < Len(image_files) - 1
  /\ Unsaved

\* the wheel tick in direction up at the widget centre changes the scale
TickZooms(up) ==
  wheelEvent(View, << Rat(widget_size[1], 2), Rat(widget_size[2], 2) >>,
             up).scale # scale

\* C40: the wheel zoom is never dead.  In every reachable state with an
\* image loaded at least one of the zoom-in tick (x 1.1) and the zoom-out
\* tick (x 0.9) changes the scale.
C40_WheelNeverDead ==
  image_size # << 0, 0 >> => (TickZooms(TRUE) \/ TickZooms(FALSE))

\* from a scale within [0.1, 20] one of the two ticks always zooms
C40_InRangeNeverDead ==
  (image_size # << 0, 0 >> /\ C23_ScaleBound)
    => (TickZooms(TRUE) \/ TickZooms(FALSE))

\* a dead wheel is left by a wheel event itself: the tick was delivered and
\* rejected, and the opposite tick would be rejected too
C40_DeadAfterTick ==
  ~ (/\ view_last.op = "wheel"
     /\ image_size # << 0, 0 >>
     /\ ~ TickZooms(TRUE)
     /\ ~ TickZooms(FALSE))

====
